---- MODULE Spec2Model ----
(***************************************************************************)
(* Session lifecycle manager of the WhatsApp session API.                  *)
(*                                                                         *)
(* The registry (clients), getOrCreateClientWithCallbacks, deleteSession   *)
(* and cleanupFailedSession are those of the module server.js requires as  *)
(* ./wpp-playground (src/unnamed/part_002, lines 1-504); the event relay   *)
(* is that of the initialize-with-qr and reconnect handlers of             *)
(* src/server.js.                                                          *)
(*                                                                         *)
(* Node runs one callback at a time: an action of this model is the code   *)
(* that runs between two suspension points (an await, a timer, an engine   *)
(* callback).  The automation engine (wppconnect) and the browser are      *)
(* outside the repository: every engine call completes with any of the     *)
(* outcomes its callers handle.  fs.existsSync, fs.unlinkSync inside its   *)
(* try/catch and fs.rmSync({recursive, force}) are synchronous; rmSync is  *)
(* taken to succeed in deleteSession; in cleanupFailedSession, whose       *)
(* caller catches what it throws, it may throw.                            *)
(***************************************************************************)
EXTENDS Naturals, FiniteSets, Sequences, TLC

\* ------------------------------------------------------------------ bounds

\* Number of requests (calls) that are started in one run.
MaxCalls == 2

\* ------------------------------------------------------------- fixed sets

Calls == 1..MaxCalls

\* Session identifiers (req.params.sessionName).
Sessions == {"s1", "s2"}

\* The session all requests address when one identifier is contended.
Contended == {"s1"}

\* Map.get of a missing key; a call that created no handle.
Absent == 0

\* A handle is named after the call whose wppconnect.create returned it:
\* c for the first acquire the call makes, c + MaxCalls for its second one
\* (sendText and listChats acquire twice).
Handles == 1..(2 * MaxCalls)

\* const lockFiles = ['SingletonLock', 'SingletonCookie', 'SingletonSocket']
LockFileNames == {"SingletonLock", "SingletonCookie", "SingletonSocket"}

\* Messages of the errors wppconnect.create rejects with.
ErrMsgs == {"Failed to create SingletonLock", "ProcessSingleton: profile in use",
            "Navigation timeout"}

NoError == "none"

\* The marker words a message contains (String.prototype.includes).
MsgWords(msg) ==
    CASE msg = "Failed to create SingletonLock" -> {"SingletonLock"}
      [] msg = "ProcessSingleton: profile in use" -> {"ProcessSingleton"}
      [] OTHER -> {}

Includes(msg, word) == word \in MsgWords(msg)

\* Statuses the engine passes to statusFind.
EngineStatuses == {"inChat", "authenticated", "desconnectedMobile"}

\* Modes the engine passes to onInterfaceChange listeners.
InterfaceModes == {"MAIN", "SYNCING"}

\* socket.io client connections.
Sockets == {"k1", "k2"}

\* ------------------------------------------------------------------ state

VARIABLES
    clients,      \* the registry: session -> handle, Absent when no entry
    hstate,       \* handle -> "none" | "live" | "dead" | "closed"
    hsess,        \* handle -> the session it was created for
    dirExists,    \* session -> the profile directory data/tokens/<s> exists
    lockFiles,    \* session -> the lock markers present in that directory
    call,         \* call -> [kind, sid, pc]: the request and where it stands
    acq,          \* call -> the getOrCreateClientWithCallbacks run it made
    relay,        \* call -> readiness state of an initialization attempt
    del,          \* call -> locals and outcome of a deleteSession run
    room,         \* session -> sockets in room session-<s>
    connected,    \* sockets not yet disconnected
    op,           \* call -> locals and outcome of a sendText / listChats run
    shut,         \* the SIGINT / SIGTERM handler: where it stands
    track,        \* locals and outcome of a trackMessageDelivery run
    returned      \* history: session -> handles acquire returned since the
                  \* last registry removal or failed probe for the session

vars == <<clients, hstate, hsess, dirExists, lockFiles, call, acq, relay, del,
          room, connected, op, shut, track, returned>>

engineVars == <<hstate, hsess>>
fsVars == <<dirExists, lockFiles>>
socketVars == <<room, connected>>

\* ------------------------------------------------- records kept per call

\* client: the handle the request's awaited acquire resolved with.
IdleCall == [kind |-> "none", sid |-> "none", pc |-> "idle", client |-> Absent]

NewCall(kind, s, pc) == [kind |-> kind, sid |-> s, pc |-> pc, client |-> Absent]

\* One run of getOrCreateClientWithCallbacks.
\*   pc       idle | probe | create1 | delay | create2 | resolved | rejected
\*   existing existingClient (line 36)
\*   creates  number of wppconnect.create invocations so far
\*   err1     message of the first create's error
\*   err      message of the error the run rejected with
\*   result   handle the run resolved with
\*   probed   the handle passed `await existingClient.getConnectionState()`
\*   stored   handle this run put in the registry (clients.set)
\*   cleanups number of cleanupChromeLockFiles runs
\*   errorStatus number of status 'error' events given to onStatusChange
\*   errorMsg the `error` field of that status event
IdleAcq == [pc |-> "idle", existing |-> Absent, creates |-> 0, err1 |-> NoError,
            err |-> NoError, result |-> Absent, probed |-> FALSE,
            stored |-> Absent, cleanups |-> 0, errorStatus |-> 0,
            errorMsg |-> NoError]

\* Readiness state of one initialize-with-qr / reconnect request.
\*   isInChat, isMainMode, sessionCompleteEmitted: the handler's three lets
\*   completions  number of runs of the completion branch
\*   scRecv       socket -> session-complete events sent to it
\*   timers       sockets with a pending disconnect timer (setTimeout 1000)
\*   subscribed   handle whose onInterfaceChange listener was attached
\*   responded    res.json was sent
\*   cleanupClient cachedClient of the cleanupFailedSession run
\*   seenInChat   history: a status 'inChat' reached statusCallback
\*   seenMain     history: a mode 'MAIN' reached the interface listener
\*   cleanupAlone history: no other request was running when
\*                cleanupFailedSession was entered
\*   cleanupPeers history: the requests received by then
\*   cleanupClosed history: cleanupFailedSession called close()
\*   cleanupLeft  history: registry and directory as cleanupFailedSession
\*                left them when it returned
\*   cleanupThrew history: cleanupFailedSession threw
\*   failDisconnected history: the initialization-error branch ran its
\*                disconnect loop
\*   errorBroadcast history: a status-update carrying
\*                'initialization-error' was broadcast
\*   failed       history: a status 'error' or 'initialization-error'
\*                reached statusCallback
\*   qrSent       history: a qr-code event was broadcast
\*   late         history: an event reached qrCallback or statusCallback
\*                after a failure status was seen
\*   unsent       history: an event reached qrCallback or statusCallback
\*                and was not broadcast
\*   trail        history: the statuses 'error', 'initialization-error' and
\*                'ready' broadcast for the attempt, in order
\*   mainUnheard  history: the engine changed to mode 'MAIN' during the
\*                attempt while no interface listener was attached
IdleRelay == [isInChat |-> FALSE, isMainMode |-> FALSE,
              sessionCompleteEmitted |-> FALSE, completions |-> 0,
              scRecv |-> [k \in Sockets |-> 0], timers |-> {},
              subscribed |-> Absent, responded |-> FALSE,
              cleanupClient |-> Absent, seenInChat |-> FALSE,
              seenMain |-> FALSE, cleanupAlone |-> FALSE,
              cleanupPeers |-> {}, cleanupClosed |-> FALSE,
              cleanupLeft |-> [returned |-> FALSE, registryEmpty |-> FALSE,
                               dirAbsent |-> FALSE],
              cleanupThrew |-> FALSE, failDisconnected |-> FALSE,
              errorBroadcast |-> FALSE, failed |-> FALSE, qrSent |-> FALSE,
              late |-> FALSE, unsent |-> FALSE, mainUnheard |-> FALSE,
              trail |-> <<>>]

\* One run of deleteSession.
\*   client        cachedClient (line 357)
\*   reacquired    the reconnect-for-logout was started (line 386)
\*   timedOut      the 10 s timeout won the race
\*   logoutCalled  logout() was invoked on a handle
\*   logoutThrew   that logout() threw
\*   closeCalled   close() was invoked on a handle
\*   rmCalled      fs.rmSync was invoked on the profile directory
\*   dirAtTail     history: the directory existed at the check of line 418
\*   quiet         history: every earlier request was over when the run
\*                 started
\*   succ          history: the run started quiet, the request before it
\*                 being a deleteSession of the same session that started
\*                 quiet and has returned
\*   summary       the returned object's clientRemoved / dataDirectoryDeleted
IdleDel == [client |-> Absent, reacquired |-> FALSE, timedOut |-> FALSE,
            logoutCalled |-> FALSE, logoutThrew |-> FALSE,
            closeCalled |-> FALSE, rmCalled |-> FALSE,
            dirAtTail |-> FALSE, quiet |-> FALSE, succ |-> FALSE,
            summary |-> [returned |-> FALSE, clientRemoved |-> FALSE,
                         dataDirectoryDeleted |-> FALSE]]

\* What sendText / listChats hand back; chats: "none" (sendText has no
\* such field), "empty" ([]) or "list" (what the engine returned).
NoResult == [returned |-> FALSE, success |-> FALSE, isAuthenticated |-> FALSE,
             chats |-> "none"]

\* Locals of a sendText / listChats run and of the isAuthenticated run
\* inside it.
\*   resolved     `resolved` of isAuthenticated
\*   authRunning  the acquire isAuthenticated started has not been consumed
\*   isAuth       isAuth of sendText / listChats: "none" | "true" | "false"
\*   engineCalls  calls of client.sendText / client.listChats
\*   result       the returned object
\*   status       the status the route answers with, 0 before it answers
\*   resolves     history: calls of resolve in isAuthenticated
\*   answer       history: how client.isAuthenticated() settled: "none" |
\*                "true" | "false" | "throw"
IdleOp == [resolved |-> FALSE, authRunning |-> FALSE, isAuth |-> "none",
           engineCalls |-> 0, result |-> NoResult, status |-> 0,
           resolves |-> 0, answer |-> "none"]

\* Largest maxAttempts a trackMessageDelivery run is given.
MaxAttempts == 3

\* message.ack of a polled message: below, at and above the delivered
\* mark.
Acks == {1, 2, 3}

\* How one `await client.getMessageById(messageId)` settles: with a
\* message, with nothing, or by throwing.
PollOutcomes ==
    [kind : {"message"}, ack : Acks]
        \cup {[kind |-> "missing", ack |-> 0], [kind |-> "throw", ack |-> 0]}

\* One run of trackMessageDelivery.
\*   pc       idle | poll (getMessageById awaited) | wait (setTimeout
\*            intervalMs awaited) | done
\*   client   clients.get(sessionName)
\*   max      maxAttempts
\*   attempt  the loop variable
\*   result   "none" | "message" | "null" | "throw"
\*   seen     history: how the polls so far settled
IdleTrack == [pc |-> "idle", client |-> Absent, max |-> 0, attempt |-> 0,
              result |-> "none", seen |-> <<>>]

\* The run of the signal handler.
\*   pc        running | closing (closeAllClients awaited) | exited
\*             (process.exit(0)) | crashed (the process ended on the
\*             unhandled rejection) | hung (the rejection was only reported:
\*             the handler is over and process.exit was not reached)
\*   snapshot  history: the handles in the registry when the signal came
\*   called    handles closeClient has invoked close() on
\*   pending   handles whose close() has not settled
NoShutdown == [pc |-> "running", snapshot |-> {}, called |-> {},
               pending |-> {}]

Init ==
    /\ clients = [s \in Sessions |-> Absent]
    /\ hstate = [h \in Handles |-> "none"]
    /\ hsess = [h \in Handles |-> "none"]
    /\ dirExists \in [Sessions -> BOOLEAN]
    /\ \A s \in Sessions \ Contended : ~dirExists[s]
    /\ lockFiles = [s \in Sessions |-> IF dirExists[s] THEN LockFileNames
                                      ELSE {}]
    /\ call = [c \in Calls |-> IdleCall]
    /\ acq = [c \in Calls |-> IdleAcq]
    /\ relay = [c \in Calls |-> IdleRelay]
    /\ del = [c \in Calls |-> IdleDel]
    /\ room = [s \in Sessions |-> {}]
    /\ connected = Sockets
    /\ op = [c \in Calls |-> IdleOp]
    /\ shut = NoShutdown
    /\ track = IdleTrack
    /\ returned = [s \in Sessions |-> {}]

\* Calls are numbered in the order they arrive.
CanStart(c) ==
    /\ call[c].kind = "none"
    /\ \A d \in Calls : d < c => call[d].kind # "none"

\* ------------------------------------------------------------ the engine

\* getConnectionState() on a handle throws once the page is detached.
ProbeOk(h) == hstate[h] = "live"

\* The browser behind a handle dies (crash, detached frame).
Detach(h) ==
    /\ hstate[h] = "live"
    /\ hstate' = [hstate EXCEPT ![h] = "dead"]
    /\ UNCHANGED <<clients, hsess, fsVars, call, acq, relay, del, socketVars,
                   returned>>
    /\ UNCHANGED <<op, shut, track>>


\* ------------------------------------------------------------ the registry

\* A put that stores nothing.
RegistryPut_Dropped(cl, s, h) == cl

\* clients.set(sessionName, client)
RegistryPut(cl, s, h) == [cl EXCEPT ![s] = h]

\* clients.delete(sessionName)
RegistryRemove(cl, s) == [cl EXCEPT ![s] = Absent]

\* ----------------------------------------------------------- event relay

\* The request passes onStatusChange / onQRCode to acquire.
HasStatusCallback(c) == call[c].kind \in {"init", "reconnect"}

\* The transport-ready flag alone taken for completion.
CompletionFires_InChatOnly(r) == r.isInChat /\ ~r.sessionCompleteEmitted

\* The condition without its one-shot latch.
CompletionFires_NoLatch(r) == r.isInChat /\ r.isMainMode

\* if (isInChat && isMainMode && !sessionCompleteEmitted)
CompletionFires(r) == r.isInChat /\ r.isMainMode /\ ~r.sessionCompleteEmitted

\* session-complete emitted, but no disconnect scheduled.
CheckAndEmitSessionComplete_NoDisconnect(r, members) ==
    IF CompletionFires(r)
    THEN [r EXCEPT !.sessionCompleteEmitted = TRUE,
                   !.completions = @ + 1,
                   !.scRecv = [k \in Sockets |->
                                  IF k \in members THEN @[k] + 1 ELSE @[k]]]
    ELSE r

\* checkAndEmitSessionComplete: members are the sockets of the room.
CheckAndEmitSessionComplete(r, members) ==
    IF CompletionFires(r)
    THEN [r EXCEPT !.sessionCompleteEmitted = TRUE,
                   !.completions = @ + 1,
                   !.scRecv = [k \in Sockets |->
                                  IF k \in members THEN @[k] + 1 ELSE @[k]],
                   !.timers = @ \cup members]
    ELSE r

\* Any status of a working session taken for 'inChat'.
IsInChatStatus_AnyStatus(st) == st \in {"inChat", "authenticated", "ready"}

\* if (statusData.status === 'inChat')
IsInChatStatus(st) == st = "inChat"

\* The broadcast given up once session-complete was sent.
Broadcasts_UntilComplete(r) == ~r.sessionCompleteEmitted

\* io.to(`session-${sessionName}`).emit(...), the first statement of
\* qrCallback and of statusCallback: no flag is consulted.
Broadcasts(r) == TRUE

\* An event that reaches a relay callback after a failure status.
EventIsLate(r) == r.failed

\* The statuses that acquire and the handler pass to statusCallback
\* themselves: 'error' in the catch blocks of acquire, 'ready' in the
\* handler's .then, 'initialization-error' in its .catch.
OutcomeStatuses == {"error", "initialization-error", "ready"}

\* qrCallback: the QR code is broadcast to the room.
QrCallback(r) ==
    [r EXCEPT !.qrSent = @ \/ Broadcasts(r),
              !.unsent = @ \/ ~Broadcasts(r),
              !.late = @ \/ EventIsLate(r)]

\* statusCallback, up to the initialization-error branch: the status is
\* broadcast to the room, and 'inChat' sets the transport-ready flag.
StatusCallback(r, st, members) ==
    LET failure == st \in {"error", "initialization-error"}
        seen == [r EXCEPT !.seenInChat = @ \/ (st = "inChat"),
                          !.unsent = @ \/ ~Broadcasts(r),
                          !.late = @ \/ EventIsLate(r),
                          !.errorBroadcast =
                              @ \/ (st = "initialization-error" /\ Broadcasts(r)),
                          !.failed = @ \/ failure,
                          !.trail = IF st \in OutcomeStatuses /\ Broadcasts(r)
                                    THEN Append(@, st)
                                    ELSE @]
    IN  IF IsInChatStatus(st)
        THEN CheckAndEmitSessionComplete([seen EXCEPT !.isInChat = TRUE],
                                         members)
        ELSE seen

\* if (state.mode === 'MAIN')
IsMainMode(mode) == mode = "MAIN"

\* The listener interfaceCallback attaches with client.onInterfaceChange.
InterfaceListener(r, mode, members) ==
    LET seen == [r EXCEPT !.seenMain = @ \/ (mode = "MAIN")]
    IN  IF IsMainMode(mode)
        THEN CheckAndEmitSessionComplete([seen EXCEPT !.isMainMode = TRUE],
                                         members)
        ELSE seen

\* ------------------------------------- getOrCreateClientWithCallbacks

\* Every failure of create taken for a profile-lock failure.
IsLockError_AnyError(msg) == TRUE

\* error.message.includes('SingletonLock') ||
\* error.message.includes('ProcessSingleton')
IsLockError(msg) ==
    Includes(msg, "SingletonLock") \/ Includes(msg, "ProcessSingleton")

\* A retry loop: the failure of the retry is retried as well.
RetryWarranted_EveryAttempt(a, msg) == IsLockError(msg)

\* The catch of the first create retries; the catch of the retry does not.
RetryWarranted(a, msg) == a.pc = "create1" /\ IsLockError(msg)

\* The run from its entry to its first await: a cached handle is probed,
\* otherwise wppconnect.create is invoked.
AcqEnter(s) ==
    IF clients[s] # Absent
    THEN [IdleAcq EXCEPT !.pc = "probe", !.existing = clients[s]]
    ELSE [IdleAcq EXCEPT !.pc = "create1", !.creates = 1]

\* The cached handle returned whatever the probe says.
CachedUsable_Unchecked(h) == TRUE

\* try { await existingClient.getConnectionState(); return existingClient }
\* catch: the cached handle is returned only if the probe did not throw.
CachedUsable(h) == ProbeOk(h)

\* A run that launches a browser although the probe passed.
ProbePassed_Recreate(a) == [a EXCEPT !.pc = "create1", !.creates = @ + 1]

\* What the resolved run hands to its caller on the cached path.
ProbePassed(a) == [a EXCEPT !.pc = "resolved", !.result = a.existing,
                            !.probed = TRUE]

\* `await existingClient.getConnectionState()` settles.
AcquireProbeReturns(c) ==
    /\ acq[c].pc = "probe"
    /\ LET s == call[c].sid
           h == acq[c].existing
       IN  IF CachedUsable(h)
           THEN /\ acq' = [acq EXCEPT ![c] = ProbePassed(@)]
                /\ returned' = [returned EXCEPT ![s] = @ \cup {h}]
                /\ UNCHANGED clients
           ELSE /\ clients' = RegistryRemove(clients, s)
                /\ acq' = [acq EXCEPT ![c] = [@ EXCEPT !.pc = "create1",
                                                       !.creates = @ + 1]]
                /\ returned' = [returned EXCEPT ![s] = {}]
    /\ UNCHANGED <<engineVars, fsVars, call, relay, del, socketVars>>
    /\ UNCHANGED <<op, shut, track>>

\* A run that stores the created handle and returns the one it found
\* cached on entry.
CreateStored_ReturnsCached(a, h) ==
    [a EXCEPT !.pc = "resolved", !.result = a.existing, !.stored = h]

\* What a successful create leaves in the run: the handle is stored and
\* returned.
CreateStored(a, h) == [a EXCEPT !.pc = "resolved", !.result = h, !.stored = h]

\* The client object a create of call c resolves with.
NewHandle(c) == IF call[c].pc = "acquire2" THEN c + MaxCalls ELSE c

\* `await wppconnect.create(...)` resolves (first try or retry): the browser
\* runs on the profile directory, the handle is put in the registry.
AcquireCreateSucceeds(c) ==
    /\ acq[c].pc \in {"create1", "create2"}
    /\ LET s == call[c].sid
           h == NewHandle(c)
       IN  /\ hstate' = [hstate EXCEPT ![h] = "live"]
           /\ hsess' = [hsess EXCEPT ![h] = s]
           /\ acq' = [acq EXCEPT ![c] = CreateStored(@, h)]
           /\ clients' = RegistryPut(clients, s, h)
           /\ dirExists' = [dirExists EXCEPT ![s] = TRUE]
           /\ lockFiles' = [lockFiles EXCEPT ![s] = LockFileNames]
           /\ returned' = [returned EXCEPT ![s] = @ \cup {h}]
    /\ UNCHANGED <<call, relay, del, socketVars>>
    /\ UNCHANGED <<op, shut, track>>

\* The retry's catch reporting the error of the first create.
ErrorStatusMsg_First(a, msg) == IF a.err1 # NoError THEN a.err1 ELSE msg

\* error: retryError.message in the catch of the retry, error:
\* error.message in the outer catch: the message of the error that is
\* thrown next.
ErrorStatusMsg(a, msg) == msg

\* A failing run that throws without a word to onStatusChange.
ReportError_Silent(c, r) == r

\* The status 'error' that a failing run gives to onStatusChange.
ReportError(c, r) ==
    IF HasStatusCallback(c)
    THEN StatusCallback(r, "error", room[call[c].sid])
    ELSE r

\* A catch block that removes the profile directory.
DirAfterFailure_Removed(existed, touched) == FALSE

\* The catch blocks of acquire hold no rmSync, deleteSession or
\* cleanupFailedSession: the directory is there afterwards if it was
\* before or if the failed launch made it.
DirAfterFailure(existed, touched) == existed \/ touched

\* A remediation that gives up when a marker could not be unlinked.
AfterRemediation_AbortIfKept(kept) ==
    IF kept = {} THEN "delay" ELSE "rejected"

\* cleanupChromeLockFiles catches the error of each unlinkSync and returns
\* normally; the 500 ms delay is awaited next.
AfterRemediation(kept) == "delay"

\* `await wppconnect.create(...)` rejects with msg.  touched: the failed
\* launch left the profile directory and its lock markers behind.  kept: the
\* markers cleanupChromeLockFiles could not unlink.
AcquireCreateFails(c) ==
    /\ acq[c].pc \in {"create1", "create2"}
    /\ \E msg \in ErrMsgs, touched \in BOOLEAN :
         LET s == call[c].sid
             locks == IF touched THEN LockFileNames ELSE lockFiles[s]
         IN  /\ dirExists' = [dirExists EXCEPT ![s] = DirAfterFailure(@, touched)]
             /\ IF RetryWarranted(acq[c], msg)
                THEN /\ \E kept \in SUBSET locks :
                          /\ lockFiles' = [lockFiles EXCEPT ![s] = kept]
                          /\ acq' = [acq EXCEPT ![c] =
                                       [@ EXCEPT !.pc = AfterRemediation(kept),
                                                 !.err1 = msg,
                                                 !.cleanups = @ + 1]]
                     /\ UNCHANGED relay
                ELSE /\ lockFiles' = [lockFiles EXCEPT ![s] = locks]
                     /\ acq' = [acq EXCEPT ![c] =
                                  [@ EXCEPT !.pc = "rejected",
                                            !.err = msg,
                                            !.err1 = IF acq[c].pc = "create1"
                                                     THEN msg ELSE @,
                                            !.errorStatus =
                                                IF HasStatusCallback(c)
                                                THEN @ + 1 ELSE @,
                                            !.errorMsg =
                                                IF HasStatusCallback(c)
                                                THEN ErrorStatusMsg(acq[c], msg)
                                                ELSE @]]
                     /\ relay' = [relay EXCEPT ![c] = ReportError(c, @)]
    /\ UNCHANGED <<clients, engineVars, call, del, socketVars, returned>>
    /\ UNCHANGED <<op, shut, track>>

\* `await new Promise(resolve => setTimeout(resolve, 500))` elapses and the
\* retry create is invoked.
AcquireDelayElapsed(c) ==
    /\ acq[c].pc = "delay"
    /\ acq' = [acq EXCEPT ![c] = [@ EXCEPT !.pc = "create2", !.creates = @ + 1]]
    /\ UNCHANGED <<clients, engineVars, fsVars, call, relay, del, socketVars,
                   returned>>
    /\ UNCHANGED <<op, shut, track>>

\* The caller's continuation of `await getOrCreateClientWithCallbacks(...)`:
\* the handle becomes its client, or the rejection is thrown into it.  The
\* settled run's locals are gone.
Settled(k, a, pcResolved, pcRejected) ==
    IF a.pc = "resolved"
    THEN [k EXCEPT !.pc = pcResolved, !.client = a.result]
    ELSE [k EXCEPT !.pc = pcRejected]

\* ------------------------------------------------- getConnectionState(s)

\* GET /api/sessions/:sessionName/connection-state: acquire is entered.
GetConnectionStateStart(c, s) ==
    /\ CanStart(c)
    /\ call' = [call EXCEPT ![c] = NewCall("getConnectionState", s, "acquire")]
    /\ acq' = [acq EXCEPT ![c] = AcqEnter(s)]
    /\ UNCHANGED <<clients, engineVars, fsVars, relay, del, socketVars,
                   returned>>
    /\ UNCHANGED <<op, shut, track>>

\* The awaited acquire settles: client.getConnectionState() is called, or
\* the rejection is passed on (the route answers 500).
GetConnectionStateAcquired(c) ==
    /\ call[c].kind = "getConnectionState"
    /\ call[c].pc = "acquire"
    /\ acq[c].pc \in {"resolved", "rejected"}
    /\ call' = [call EXCEPT ![c] = Settled(@, acq[c], "state", "threw")]
    /\ acq' = [acq EXCEPT ![c] = IdleAcq]
    /\ UNCHANGED <<clients, engineVars, fsVars, relay, del, socketVars,
                   returned>>
    /\ UNCHANGED <<op, shut, track>>

\* `await client.getConnectionState()` settles.
GetConnectionStateReturns(c) ==
    /\ call[c].kind = "getConnectionState"
    /\ call[c].pc = "state"
    /\ call' = [call EXCEPT ![c].pc = IF ProbeOk(call[c].client) THEN "done"
                                      ELSE "threw"]
    /\ UNCHANGED <<clients, engineVars, fsVars, acq, relay, del, socketVars,
                   returned>>
    /\ UNCHANGED <<op, shut, track>>

\* ------------------------------------------------ trackMessageDelivery

\* The run is over with this result.
TrackDone(t, result) == [t EXCEPT !.pc = "done", !.result = result]

\* `attempt <= maxAttempts`, the test of the for loop: the next poll, or
\* the `return null` after the loop.
LoopTest(t) ==
    IF t.attempt <= t.max THEN [t EXCEPT !.pc = "poll"]
    ELSE TrackDone(t, "null")

\* A run that stops at a message that was read.
Delivered_Read(ack) == ack >= 3

\* if (message.ack >= 2)
Delivered(ack) == ack >= 2

\* `if (attempt < maxAttempts) await new Promise(... setTimeout ...)`, in
\* the try block and in the catch block alike, then `attempt++`.
NextAttempt(t) ==
    IF t.attempt < t.max THEN [t EXCEPT !.pc = "wait"]
    ELSE LoopTest([t EXCEPT !.attempt = @ + 1])

\* The body of the loop once getMessageById has settled.
AfterPoll(t, out) ==
    LET t1 == [t EXCEPT !.seen = Append(@, out)]
    IN  IF out.kind = "missing" THEN TrackDone(t1, "null")
        ELSE IF out.kind = "message" /\ Delivered(out.ack)
        THEN TrackDone(t1, "message")
        ELSE NextAttempt(t1)

\* trackMessageDelivery(sessionName, messageId, maxAttempts, intervalMs)
\* is called: it throws when the registry has no entry, or enters the
\* loop.
TrackStart(s, m) ==
    /\ track.pc = "idle"
    /\ track' = IF clients[s] = Absent
                THEN TrackDone([track EXCEPT !.max = m], "throw")
                ELSE LoopTest([track EXCEPT !.client = clients[s],
                                            !.max = m, !.attempt = 1])
    /\ UNCHANGED <<clients, engineVars, fsVars, call, acq, relay, del,
                   socketVars, op, shut, returned>>

\* `await client.getMessageById(messageId)` settles; a browser that is
\* not running makes it throw.
TrackPollSettles(out) ==
    /\ track.pc = "poll"
    /\ out.kind # "throw" => hstate[track.client] = "live"
    /\ track' = AfterPoll(track, out)
    /\ UNCHANGED <<clients, engineVars, fsVars, call, acq, relay, del,
                   socketVars, op, shut, returned>>

\* The intervalMs timer fires: attempt++ and the loop test.
TrackWaitElapsed ==
    /\ track.pc = "wait"
    /\ track' = LoopTest([track EXCEPT !.attempt = @ + 1])
    /\ UNCHANGED <<clients, engineVars, fsVars, call, acq, relay, del,
                   socketVars, op, shut, returned>>

\* ------------------------------------ isAuthenticated, sendText, listChats

OpKinds == {"sendText", "listChats"}

\* The object returned when isAuth is false (lines 274-280, 319-326).
Unauthenticated(kind) ==
    [returned |-> TRUE, success |-> FALSE, isAuthenticated |-> FALSE,
     chats |-> IF kind = "listChats" THEN "empty" ELSE "none"]

\* The catch of the send / list phase reporting the session as still
\* authenticated.
EngineFailure_StillAuthenticated(kind) ==
    [returned |-> TRUE, success |-> FALSE, isAuthenticated |-> TRUE,
     chats |-> IF kind = "listChats" THEN "empty" ELSE "none"]

\* The object returned by the catch of the send / list phase (lines
\* 293-298, 339-345).
EngineFailure(kind) ==
    [returned |-> TRUE, success |-> FALSE, isAuthenticated |-> FALSE,
     chats |-> IF kind = "listChats" THEN "empty" ELSE "none"]

\* The object returned after the engine call and setOnlinePresence.
Sent(kind) ==
    [returned |-> TRUE, success |-> TRUE, isAuthenticated |-> TRUE,
     chats |-> IF kind = "listChats" THEN "list" ELSE "none"]

\* The send / list phase entered whatever the authentication check said.
AuthPassed_Unchecked(isAuth) == TRUE

\* `if (!isAuth)` does not return.
AuthPassed(isAuth) == isAuth = "true"

\* The routes: 401 for `!result.success && !result.isAuthenticated`,
\* otherwise res.json (200).
RouteStatus(result) ==
    IF ~result.success /\ ~result.isAuthenticated THEN 401 ELSE 200

\* sendText / listChats return result and the route answers.
OpReturn(c, o, result) ==
    /\ op' = [op EXCEPT ![c] = [o EXCEPT !.result = result,
                                         !.status = RouteStatus(result)]]
    /\ call' = [call EXCEPT ![c].pc = "done"]

\* isAuthenticated has resolved with auth ("true" | "false") and the
\* continuation of sendText / listChats runs up to its next await: the
\* second acquire is entered, or the unauthenticated result returned.
OpAuthChecked(c, o, auth) ==
    LET o1 == [o EXCEPT !.isAuth = auth, !.resolves = @ + 1]
    IN  IF AuthPassed(auth)
        THEN /\ op' = [op EXCEPT ![c] = o1]
             /\ call' = [call EXCEPT ![c].pc = "acquire2"]
             /\ acq' = [acq EXCEPT ![c] = AcqEnter(call[c].sid)]
        ELSE /\ OpReturn(c, o1, Unauthenticated(call[c].kind))
             /\ acq' = [acq EXCEPT ![c] = IF o.authRunning THEN @ ELSE IdleAcq]

\* POST send-message / GET chats: sendText / listChats call
\* isAuthenticated, which enters acquire with its own statusFind.
OpStart(c, s, kind) ==
    /\ CanStart(c)
    /\ call' = [call EXCEPT ![c] = NewCall(kind, s, "auth")]
    /\ acq' = [acq EXCEPT ![c] = AcqEnter(s)]
    /\ op' = [op EXCEPT ![c] = [IdleOp EXCEPT !.authRunning = TRUE]]
    /\ UNCHANGED <<clients, engineVars, fsVars, relay, del, socketVars,
                   returned, shut, track>>

\* A guard that lets every callback of isAuthenticated through.
IsResolved_Never(o) == FALSE

\* `if (resolved) return;` in statusFind, `if (!resolved)` in .then and
\* .catch.
IsResolved(o) == o.resolved

\* The statusFind of isAuthenticated can be called: the create it was
\* given to is pending, or .then has run and the browser of that create
\* is running.
AuthStatusWired(c) ==
    \/ op[c].authRunning /\ acq[c].pc \in {"create1", "create2"}
    \/ ~op[c].authRunning /\ op[c].resolved /\ hstate[c] = "live"

\* The engine passes a status to the statusFind of isAuthenticated:
\* 'desconnectedMobile' resolves the promise with false unless resolved
\* is set; the acquire goes on in the background.
OpStatusFind(c, st) ==
    /\ call[c].kind \in OpKinds
    /\ AuthStatusWired(c)
    /\ IF ~IsResolved(op[c]) /\ st = "desconnectedMobile"
       THEN OpAuthChecked(c, [op[c] EXCEPT !.resolved = TRUE], "false")
       ELSE UNCHANGED <<call, acq, op>>
    /\ UNCHANGED <<clients, engineVars, fsVars, relay, del, socketVars,
                   returned, shut, track>>

\* The acquire of isAuthenticated settles: .then calls
\* client.isAuthenticated(), .catch resolves with false; both do nothing
\* once resolved is set.
OpAuthAcquireSettled(c) ==
    /\ call[c].kind \in OpKinds
    /\ op[c].authRunning
    /\ acq[c].pc \in {"resolved", "rejected"}
    /\ LET o == [op[c] EXCEPT !.authRunning = FALSE, !.resolved = TRUE]
       IN  IF IsResolved(op[c])
           THEN /\ op' = [op EXCEPT ![c] = o]
                /\ acq' = [acq EXCEPT ![c] = IdleAcq]
                /\ UNCHANGED call
           ELSE IF acq[c].pc = "resolved"
           THEN /\ op' = [op EXCEPT ![c] = o]
                /\ call' = [call EXCEPT ![c] = Settled(@, acq[c], "isauth", "isauth")]
                /\ acq' = [acq EXCEPT ![c] = IdleAcq]
           ELSE OpAuthChecked(c, o, "false")
    /\ UNCHANGED <<clients, engineVars, fsVars, relay, del, socketVars,
                   returned, shut, track>>

\* `await client.isAuthenticated()` settles: its value, or false when it
\* throws.
OpIsAuthReturns(c) ==
    /\ call[c].kind \in OpKinds /\ call[c].pc = "isauth"
    /\ \E out \in {"true", "false", "throw"} :
         /\ out # "throw" => hstate[call[c].client] = "live"
         /\ OpAuthChecked(c, [op[c] EXCEPT !.answer = out],
                          IF out = "true" THEN "true" ELSE "false")
    /\ UNCHANGED <<clients, engineVars, fsVars, relay, del, socketVars,
                   returned, shut, track>>

\* The second acquire settles: client.sendText / client.listChats is
\* called, or the rejection is caught.
OpAcquire2Settled(c) ==
    /\ call[c].kind \in OpKinds /\ call[c].pc = "acquire2"
    /\ acq[c].pc \in {"resolved", "rejected"}
    /\ IF acq[c].pc = "resolved"
       THEN /\ call' = [call EXCEPT ![c] = Settled(@, acq[c], "engine", "engine")]
            /\ op' = [op EXCEPT ![c].engineCalls = @ + 1]
       ELSE OpReturn(c, op[c], EngineFailure(call[c].kind))
    /\ acq' = [acq EXCEPT ![c] = IdleAcq]
    /\ UNCHANGED <<clients, engineVars, fsVars, relay, del, socketVars,
                   returned, shut, track>>

\* `await client.sendText(to, message)` / `await client.listChats(options)`
\* settles.
OpEngineReturns(c) ==
    /\ call[c].kind \in OpKinds /\ call[c].pc = "engine"
    /\ \E ok \in BOOLEAN :
         /\ ok => hstate[call[c].client] = "live"
         /\ IF ok
            THEN /\ call' = [call EXCEPT ![c].pc = "presence"]
                 /\ UNCHANGED op
            ELSE OpReturn(c, op[c], EngineFailure(call[c].kind))
    /\ UNCHANGED <<clients, engineVars, fsVars, acq, relay, del, socketVars,
                   returned, shut, track>>

\* `await client.setOnlinePresence(false)` settles.
OpPresenceReturns(c) ==
    /\ call[c].kind \in OpKinds /\ call[c].pc = "presence"
    /\ \E ok \in BOOLEAN :
         /\ ok => hstate[call[c].client] = "live"
         /\ OpReturn(c, op[c], IF ok THEN Sent(call[c].kind)
                                ELSE EngineFailure(call[c].kind))
    /\ UNCHANGED <<clients, engineVars, fsVars, acq, relay, del, socketVars,
                   returned, shut, track>>

\* -------------------------------------------------------- deleteSession

\* The object deleteSession returns (lines 430-436).
Summary(cl, s, dir) ==
    [returned |-> TRUE, clientRemoved |-> cl[s] = Absent,
     dataDirectoryDeleted |-> ~dir]

\* `if (fs.existsSync(sessionDataDir))` of line 418: the removal is awaited
\* (1 s timer), otherwise the summary is returned at once.
RemovalPending(s) == dirExists[s]

\* deleteSession from line 416 on, the registry being cl.
DeleteTail(d, s, cl) ==
    IF RemovalPending(s)
    THEN [pc |-> "rmwait", d |-> [d EXCEPT !.dirAtTail = dirExists[s]]]
    ELSE [pc |-> "done",
          d |-> [d EXCEPT !.dirAtTail = dirExists[s],
                          !.summary = Summary(cl, s, dirExists[s])]]

\* A logout error that escapes to the outer catch and is thrown again.
AfterLogoutError_Rethrown(pc) == "threw"

\* The catch blocks of lines 369 and 405 swallow a logout error: the run
\* goes on where the tail leads.
AfterLogoutError(pc) == pc

\* Every request before c is over.
QuietStart(c) == \A d \in Calls : d < c => call[d].pc \in {"done", "threw"}

\* The run starts right after a deleteSession of the same session returned,
\* no other request running next to either of the two.
InSuccession(c, s) ==
    /\ c > 1
    /\ QuietStart(c)
    /\ call[c - 1].kind = "delete"
    /\ call[c - 1].sid = s
    /\ call[c - 1].pc = "done"
    /\ del[c - 1].quiet

\* No reconnect for the sake of a logout.
ReconnectForLogout_Never(s) == FALSE

\* `if (fs.existsSync(sessionDataDir))` of line 381: the reconnect-for-logout.
ReconnectForLogout(s) == dirExists[s]

\* DELETE /api/sessions/:sessionName: deleteSession up to its first await.
DeleteStart(c, s) ==
    /\ CanStart(c)
    /\ LET cached == clients[s]
           d0 == [del[c] EXCEPT !.quiet = QuietStart(c),
                                !.succ = InSuccession(c, s)]
       IN  IF cached # Absent
           THEN /\ call' = [call EXCEPT ![c] = NewCall("delete", s, "logout1")]
                /\ del' = [del EXCEPT ![c] = [d0 EXCEPT !.client = cached,
                                                        !.logoutCalled = TRUE]]
                /\ UNCHANGED acq
           ELSE IF ReconnectForLogout(s)
           THEN /\ call' = [call EXCEPT ![c] = NewCall("delete", s, "race")]
                /\ del' = [del EXCEPT ![c] = [d0 EXCEPT !.reacquired = TRUE]]
                /\ acq' = [acq EXCEPT ![c] = AcqEnter(s)]
           ELSE LET t == DeleteTail(d0, s, clients)
                IN  /\ call' = [call EXCEPT ![c] = NewCall("delete", s, t.pc)]
                    /\ del' = [del EXCEPT ![c] = t.d]
                    /\ UNCHANGED acq
    /\ UNCHANGED <<clients, engineVars, fsVars, relay, socketVars, returned>>
    /\ UNCHANGED <<op, shut, track>>

\* The registry entry is removed and the run goes on at line 416.
DeleteRemoveAndTail(c, d) ==
    LET s == call[c].sid
        cl == RegistryRemove(clients, s)
        t == DeleteTail(d, s, cl)
    IN  /\ clients' = cl
        /\ returned' = [returned EXCEPT ![s] = {}]
        /\ call' = [call EXCEPT ![c].pc = IF d.logoutThrew
                                          THEN AfterLogoutError(t.pc)
                                          ELSE t.pc]
        /\ del' = [del EXCEPT ![c] = t.d]

\* `await cachedClient.logout()` settles (line 363).
DeleteLogoutReturns(c) ==
    /\ call[c].kind = "delete" /\ call[c].pc = "logout1"
    /\ \E ok \in BOOLEAN :
         /\ ok => hstate[del[c].client] = "live"
         /\ IF ok
            THEN /\ call' = [call EXCEPT ![c].pc = "close1"]
                 /\ del' = [del EXCEPT ![c].closeCalled = TRUE]
                 /\ UNCHANGED <<clients, returned>>
            ELSE DeleteRemoveAndTail(c, [del[c] EXCEPT !.logoutThrew = TRUE])
    /\ UNCHANGED <<engineVars, fsVars, acq, relay, socketVars>>
    /\ UNCHANGED <<op, shut, track>>

\* close() settles: when it resolves the browser is gone.
CloseHandle(h, ok) ==
    IF ok THEN [hstate EXCEPT ![h] = "closed"] ELSE hstate

\* `await cachedClient.close()` settles (line 367).
DeleteCloseReturns(c) ==
    /\ call[c].kind = "delete" /\ call[c].pc = "close1"
    /\ \E ok \in BOOLEAN :
         /\ hstate' = CloseHandle(del[c].client, ok)
         /\ DeleteRemoveAndTail(c, del[c])
    /\ UNCHANGED <<hsess, fsVars, acq, relay, socketVars>>
    /\ UNCHANGED <<op, shut, track>>

\* Promise.race settles with the reconnect (line 391): the client is asked
\* isAuthenticated(), or the rejection is caught.
DeleteRaceSettled(c) ==
    /\ call[c].kind = "delete" /\ call[c].pc = "race"
    /\ acq[c].pc \in {"resolved", "rejected"}
    /\ IF acq[c].pc = "resolved"
       THEN /\ call' = [call EXCEPT ![c] = Settled(@, acq[c], "isauth", "catch")]
            /\ UNCHANGED <<clients, returned, del>>
       ELSE DeleteRemoveAndTail(c, del[c])
    /\ acq' = [acq EXCEPT ![c] = IdleAcq]
    /\ UNCHANGED <<engineVars, fsVars, relay, socketVars>>
    /\ UNCHANGED <<op, shut, track>>

\* The reconnect awaited without a timeout.
DeleteRaceTimeout_NoTimer(c) == FALSE /\ UNCHANGED vars

\* Promise.race settles with the 10 s timeout: the reconnect goes on in the
\* background, its result is ignored.
DeleteRaceTimeout(c) ==
    /\ call[c].kind = "delete" /\ call[c].pc = "race"
    /\ acq[c].pc \notin {"resolved", "rejected"}
    /\ DeleteRemoveAndTail(c, [del[c] EXCEPT !.timedOut = TRUE])
    /\ UNCHANGED <<engineVars, fsVars, acq, relay, socketVars>>
    /\ UNCHANGED <<op, shut, track>>

\* `await client.isAuthenticated()` settles (line 394).
DeleteIsAuthReturns(c) ==
    /\ call[c].kind = "delete" /\ call[c].pc = "isauth"
    /\ \E out \in {"true", "false", "throw"} :
         /\ out # "throw" => hstate[call[c].client] = "live"
         /\ IF out = "true"
            THEN /\ call' = [call EXCEPT ![c].pc = "logout2"]
                 /\ del' = [del EXCEPT ![c].logoutCalled = TRUE]
                 /\ UNCHANGED <<clients, returned>>
            ELSE IF out = "false"
            THEN /\ call' = [call EXCEPT ![c].pc = "close2"]
                 /\ del' = [del EXCEPT ![c].closeCalled = TRUE]
                 /\ UNCHANGED <<clients, returned>>
            ELSE DeleteRemoveAndTail(c, del[c])
    /\ UNCHANGED <<engineVars, fsVars, acq, relay, socketVars>>
    /\ UNCHANGED <<op, shut, track>>

\* `await client.logout()` settles (line 397).
DeleteLogout2Returns(c) ==
    /\ call[c].kind = "delete" /\ call[c].pc = "logout2"
    /\ \E ok \in BOOLEAN :
         /\ ok => hstate[call[c].client] = "live"
         /\ IF ok
            THEN /\ call' = [call EXCEPT ![c].pc = "close2"]
                 /\ del' = [del EXCEPT ![c].closeCalled = TRUE]
                 /\ UNCHANGED <<clients, returned>>
            ELSE DeleteRemoveAndTail(c, [del[c] EXCEPT !.logoutThrew = TRUE])
    /\ UNCHANGED <<engineVars, fsVars, acq, relay, socketVars>>
    /\ UNCHANGED <<op, shut, track>>

\* `await client.close()` settles (line 403); clients.delete follows in
\* the try or in the catch.
DeleteClose2Returns(c) ==
    /\ call[c].kind = "delete" /\ call[c].pc = "close2"
    /\ \E ok \in BOOLEAN :
         /\ hstate' = CloseHandle(call[c].client, ok)
         /\ DeleteRemoveAndTail(c, del[c])
    /\ UNCHANGED <<hsess, fsVars, acq, relay, socketVars>>
    /\ UNCHANGED <<op, shut, track>>

\* The 1 s wait of line 421 elapses: fs.rmSync, then the summary.
DeleteRemoveDirectory(c) ==
    /\ call[c].kind = "delete" /\ call[c].pc = "rmwait"
    /\ LET s == call[c].sid
       IN  /\ dirExists' = [dirExists EXCEPT ![s] = FALSE]
           /\ lockFiles' = [lockFiles EXCEPT ![s] = {}]
           /\ del' = [del EXCEPT ![c] =
                        [@ EXCEPT !.rmCalled = TRUE,
                                  !.summary = Summary(clients, s, dirExists'[s])]]
    /\ call' = [call EXCEPT ![c].pc = "done"]
    /\ UNCHANGED <<clients, engineVars, acq, relay, socketVars, returned>>
    /\ UNCHANGED <<op, shut, track>>

\* ------------------------------------------------- cleanupFailedSession

\* cleanupFailedSession from its entry to its first await: the cached
\* handle's close(), or the 1 s wait of line 472.
CleanupEnter(c, s) ==
    IF clients[s] # Absent
    THEN [pc |-> "cfs_close", client |-> clients[s]]
    ELSE [pc |-> "cfs_wait", client |-> Absent]

\* The registry entry removed only after a close() that resolved.
CleanupRegistry_OnlyIfClosed(cl, s, ok) == IF ok THEN RegistryRemove(cl, s) ELSE cl

\* `clients.delete(sessionName)` of line 465 follows the try/catch around
\* close().
CleanupRegistry(cl, s, ok) == RegistryRemove(cl, s)

\* Requests that have been received.
Received == {d \in Calls : call[d].kind # "none"}

\* No request other than c is between two of its steps: each is not yet
\* received, over, or an attempt that only listens to the engine.
OthersPassive(c) ==
    \A d \in Calls \ {c} :
        call[d].pc \in {"idle", "listening", "done", "threw"}

\* ------------------------------- initialize-with-qr and reconnect handlers

\* The sockets the handlers find in io.sockets.adapter.rooms.get(room).
Members(s) == room[s]

\* socket.disconnect() on each socket of ks.
Disconnect(ks) ==
    /\ connected' = connected \ ks
    /\ room' = [s \in Sessions |-> room[s] \ ks]

\* A handler that leaves the response to the outcome of acquire.
RespondStarted_Deferred(r) == r

\* res.json({ success: true, ... }) "initialization started", the
\* statement before the call of getOrCreateClientWithCallbacks.
RespondStarted(r) == [r EXCEPT !.responded = TRUE]

\* POST /api/sessions/:sessionName/initialize-with-qr: the response is sent,
\* then acquire is entered with the two callbacks.
InitializeWithQrStart(c, s) ==
    /\ CanStart(c)
    /\ call' = [call EXCEPT ![c] = NewCall("init", s, "acquire")]
    /\ relay' = [relay EXCEPT ![c] = RespondStarted(@)]
    /\ acq' = [acq EXCEPT ![c] = AcqEnter(s)]
    /\ UNCHANGED <<clients, engineVars, fsVars, del, socketVars, returned>>
    /\ UNCHANGED <<op, shut, track>>

\* POST /api/sessions/:sessionName/reconnect: the same, for reconnection.
ReconnectStart(c, s) ==
    /\ CanStart(c)
    /\ call' = [call EXCEPT ![c] = NewCall("reconnect", s, "acquire")]
    /\ relay' = [relay EXCEPT ![c] = [@ EXCEPT !.responded = TRUE]]
    /\ acq' = [acq EXCEPT ![c] = AcqEnter(s)]
    /\ UNCHANGED <<clients, engineVars, fsVars, del, socketVars, returned>>
    /\ UNCHANGED <<op, shut, track>>

\* The handler's .then: the interface listener is attached to the client
\* and status 'ready' goes through statusCallback.
AttemptThen(r, h, members) ==
    StatusCallback([r EXCEPT !.subscribed = h], "ready", members)

\* The handler's .catch: status 'initialization-error' goes through
\* statusCallback, which sets the 2 s timer.
AttemptCatch(r, members) == StatusCallback(r, "initialization-error", members)

\* The acquire of an attempt settles: .then or .catch runs.
AttemptAcquireSettled(c) ==
    /\ HasStatusCallback(c)
    /\ call[c].pc = "acquire"
    /\ acq[c].pc \in {"resolved", "rejected"}
    /\ call' = [call EXCEPT ![c] = Settled(@, acq[c], "listening", "failwait")]
    /\ relay' = [relay EXCEPT ![c] =
                   IF acq[c].pc = "resolved"
                   THEN AttemptThen(@, acq[c].result, Members(call[c].sid))
                   ELSE AttemptCatch(@, Members(call[c].sid))]
    /\ acq' = [acq EXCEPT ![c] = IdleAcq]
    /\ UNCHANGED <<clients, engineVars, fsVars, del, socketVars, returned>>
    /\ UNCHANGED <<op, shut, track>>

\* The three flags kept in variables of the module, shared by every
\* attempt.
FlagsOf_Shared(c) == {d \in Calls : HasStatusCallback(d)}

\* `let isInChat`, `let isMainMode`, `let sessionCompleteEmitted` are
\* locals of one run of the handler: the callbacks of attempt c close over
\* the flags of c.
FlagsOf(c) == {c}

\* The statusFind callback of this call's create is wired: its create is
\* pending, or the browser it launched is running.
StatusWired(c) ==
    \/ acq[c].pc \in {"create1", "create2"}
    \/ hstate[c] = "live"

\* The engine passes a status to statusFind, which passes it to
\* statusCallback.
EngineStatus(c, st) ==
    /\ HasStatusCallback(c)
    /\ StatusWired(c)
    /\ relay' = [d \in Calls |->
                   IF d \in FlagsOf(c)
                   THEN StatusCallback(relay[d], st, Members(call[c].sid))
                   ELSE relay[d]]
    /\ UNCHANGED <<clients, engineVars, fsVars, call, acq, del, socketVars,
                   returned>>
    /\ UNCHANGED <<op, shut, track>>

\* The engine passes a QR code to catchQR, which passes it to qrCallback.
EngineQr(c) ==
    /\ HasStatusCallback(c)
    /\ StatusWired(c)
    /\ relay' = [relay EXCEPT ![c] = QrCallback(@)]
    /\ UNCHANGED <<clients, engineVars, fsVars, call, acq, del, socketVars,
                   returned>>
    /\ UNCHANGED <<op, shut, track>>

\* The engine reports an interface change to the attached listener.
EngineInterfaceChange(c, mode) ==
    /\ relay[c].subscribed # Absent
    /\ hstate[relay[c].subscribed] = "live"
    /\ relay' = [d \in Calls |->
                   IF d \in FlagsOf(c)
                   THEN InterfaceListener(relay[d], mode, Members(call[c].sid))
                   ELSE relay[d]]
    /\ UNCHANGED <<clients, engineVars, fsVars, call, acq, del, socketVars,
                   returned>>
    /\ UNCHANGED <<op, shut, track>>

\* The browser launched by the attempt's create changes its interface
\* mode while the acquire is still awaited: interfaceCallback has not run,
\* no onInterfaceChange listener exists, the change reaches no callback.
EngineInterfaceUnheard(c, mode) ==
    /\ HasStatusCallback(c)
    /\ call[c].pc = "acquire"
    /\ StatusWired(c)
    /\ relay[c].subscribed = Absent
    /\ relay' = [relay EXCEPT ![c].mainUnheard = @ \/ IsMainMode(mode)]
    /\ UNCHANGED <<clients, engineVars, fsVars, call, acq, del, socketVars,
                   returned>>
    /\ UNCHANGED <<op, shut, track>>

\* The 1 s timer of the completion branch fires for one socket.
CompletionDisconnect(c, k) ==
    /\ k \in relay[c].timers
    /\ relay' = [relay EXCEPT ![c].timers = @ \ {k}]
    /\ Disconnect({k})
    /\ UNCHANGED <<clients, engineVars, fsVars, call, acq, del, returned>>
    /\ UNCHANGED <<op, shut, track>>

\* The timer callback of initialize-with-qr in both handlers.
CleansUp_Always(kind) == TRUE

\* The timer callback of a handler that disconnects the room at once.
CleansUp_Never(kind) == FALSE

\* The timer callback of initialize-with-qr awaits cleanupFailedSession
\* before its disconnect loop; that of reconnect has the loop only.
CleansUp(kind) == kind = "init"

\* The 2 s timer of the initialization-error branch fires.  reconnect:
\* the room's sockets are disconnected.  initialize-with-qr:
\* cleanupFailedSession is entered.
FailureTimer(c) ==
    /\ HasStatusCallback(c)
    /\ call[c].pc = "failwait"
    /\ LET s == call[c].sid
           e == CleanupEnter(c, s)
       IN  IF ~CleansUp(call[c].kind)
           THEN /\ call' = [call EXCEPT ![c].pc = "done"]
                /\ Disconnect(Members(s))
                /\ relay' = [relay EXCEPT ![c].failDisconnected = TRUE]
           ELSE /\ call' = [call EXCEPT ![c].pc = e.pc]
                /\ relay' = [relay EXCEPT ![c] =
                               [@ EXCEPT !.cleanupClient = e.client,
                                         !.cleanupClosed = e.client # Absent,
                                         !.cleanupAlone = OthersPassive(c),
                                         !.cleanupPeers = Received]]
                /\ UNCHANGED socketVars
    /\ UNCHANGED <<clients, engineVars, fsVars, acq, del, returned>>
    /\ UNCHANGED <<op, shut, track>>

\* `await cachedClient.close()` of cleanupFailedSession settles; the entry
\* is removed from the registry.
CleanupCloseReturns(c) ==
    /\ call[c].pc = "cfs_close"
    /\ \E ok \in BOOLEAN :
         /\ hstate' = CloseHandle(relay[c].cleanupClient, ok)
         /\ clients' = CleanupRegistry(clients, call[c].sid, ok)
    /\ returned' = [returned EXCEPT ![call[c].sid] = {}]
    /\ call' = [call EXCEPT ![c].pc = "cfs_wait"]
    /\ UNCHANGED <<hsess, fsVars, acq, relay, del, socketVars>>
    /\ UNCHANGED <<op, shut, track>>

\* The 1 s wait of cleanupFailedSession elapses: the directory is removed
\* if it exists, or rmSync throws and cleanupFailedSession with it; back
\* in the timer callback, after the try/catch around the await, the room
\* is disconnected.
CleanupRemoveDirectory(c) ==
    /\ call[c].pc = "cfs_wait"
    /\ LET s == call[c].sid
       IN  \E removed \in BOOLEAN :
             /\ removed \/ dirExists[s]
             /\ dirExists' = [dirExists EXCEPT ![s] = @ /\ ~removed]
             /\ lockFiles' = [lockFiles EXCEPT ![s] =
                                IF removed THEN {} ELSE @]
             /\ Disconnect(Members(s))
             /\ relay' = [relay EXCEPT ![c] =
                            [@ EXCEPT !.cleanupLeft =
                                          [returned |-> removed,
                                           registryEmpty |->
                                               removed /\ clients[s] = Absent,
                                           dirAbsent |-> removed],
                                      !.cleanupThrew = ~removed,
                                      !.failDisconnected = TRUE]]
    /\ call' = [call EXCEPT ![c].pc = "done"]
    /\ UNCHANGED <<clients, engineVars, acq, del, returned>>
    /\ UNCHANGED <<op, shut, track>>

\* A socket emits join-session.
SocketJoin(k, s) ==
    /\ k \in connected
    /\ k \notin room[s]
    /\ room' = [room EXCEPT ![s] = @ \cup {k}]
    /\ UNCHANGED <<clients, engineVars, fsVars, call, acq, relay, del,
                   connected, returned>>
    /\ UNCHANGED <<op, shut, track>>

\* A socket emits leave-session.
SocketLeave(k, s) ==
    /\ k \in room[s]
    /\ room' = [room EXCEPT ![s] = @ \ {k}]
    /\ UNCHANGED <<clients, engineVars, fsVars, call, acq, relay, del,
                   connected, returned>>
    /\ UNCHANGED <<op, shut, track>>

\* ---------------------------------------------------------- specifications

AcquireSteps ==
    \E c \in Calls :
        \/ AcquireProbeReturns(c)
        \/ AcquireCreateSucceeds(c)
        \/ AcquireCreateFails(c)
        \/ AcquireDelayElapsed(c)

GetConnectionStateSteps ==
    \E c \in Calls :
        \/ \E s \in Contended : GetConnectionStateStart(c, s)
        \/ GetConnectionStateAcquired(c)
        \/ GetConnectionStateReturns(c)

DeleteSteps ==
    \E c \in Calls :
        \/ \E s \in Contended : DeleteStart(c, s)
        \/ DeleteLogoutReturns(c)
        \/ DeleteCloseReturns(c)
        \/ DeleteRaceSettled(c)
        \/ DeleteRaceTimeout(c)
        \/ DeleteIsAuthReturns(c)
        \/ DeleteLogout2Returns(c)
        \/ DeleteClose2Returns(c)
        \/ DeleteRemoveDirectory(c)

AttemptSteps ==
    \E c \in Calls :
        \/ \E s \in Contended : InitializeWithQrStart(c, s)
        \/ \E s \in Contended : ReconnectStart(c, s)
        \/ AttemptAcquireSettled(c)
        \/ \E st \in EngineStatuses : EngineStatus(c, st)
        \/ \E mode \in InterfaceModes : EngineInterfaceChange(c, mode)
        \/ \E k \in Sockets : CompletionDisconnect(c, k)
        \/ FailureTimer(c)
        \/ CleanupCloseReturns(c)
        \/ CleanupRemoveDirectory(c)

SocketSteps ==
    \E k \in Sockets, s \in Contended :
        \/ SocketJoin(k, s)
        \/ SocketLeave(k, s)

OpSteps ==
    \E c \in Calls :
        \/ \E s \in Contended, kind \in OpKinds : OpStart(c, s, kind)
        \/ \E st \in EngineStatuses : OpStatusFind(c, st)
        \/ OpAuthAcquireSettled(c)
        \/ OpIsAuthReturns(c)
        \/ OpAcquire2Settled(c)
        \/ OpEngineReturns(c)
        \/ OpPresenceReturns(c)

EngineSteps == \E h \in Handles : Detach(h)

\* Requests that only acquire, all for one session.
NextAcquire == AcquireSteps \/ GetConnectionStateSteps \/ EngineSteps

SpecAcquire == Init /\ [][NextAcquire]_vars

\* The 500 ms timer of the remediation fires.
AcquireFairness == \A c \in Calls : WF_vars(AcquireDelayElapsed(c))

SpecAcquireLive == SpecAcquire /\ AcquireFairness

\* Acquiring and deleting requests, all for one session.
NextDelete == AcquireSteps \/ GetConnectionStateSteps \/ DeleteSteps \/ EngineSteps

SpecDelete == Init /\ [][NextDelete]_vars

\* Timers fire and the continuation of a settled promise runs; nothing is
\* assumed of the engine: a create, logout, close or isAuthenticated call
\* may stay pending for ever.
DeleteFairness ==
    \A c \in Calls :
        /\ WF_vars(DeleteRaceTimeout(c))
        /\ WF_vars(DeleteRaceSettled(c))
        /\ WF_vars(DeleteRemoveDirectory(c))

SpecDeleteLive == SpecDelete /\ DeleteFairness

\* ------------------------------------------ closeAllClients and signals

\* Array.from(clients.keys()): the handles of the registry.
Registered == {clients[s] : s \in Sessions} \ {Absent}

\* SIGINT or SIGTERM: closeAllClients maps closeClient over the keys of the
\* registry; each closeClient runs up to its `await client.close()`, then
\* Promise.all is awaited.  closeClient leaves the registry as it is.
ShutdownSignal ==
    /\ shut.pc = "running"
    /\ shut' = [pc |-> "closing", snapshot |-> Registered,
                called |-> Registered, pending |-> Registered]
    /\ UNCHANGED <<clients, engineVars, fsVars, call, acq, relay, del,
                   socketVars, op, returned, track>>

\* What becomes of the handler when a close() settles.  Promise.all rejects
\* with the first rejection, `await closeAllClients()` throws and the async
\* handler's promise rejects with nothing to catch it: the runtime ends
\* the process or only reports the rejection, depending on its version and
\* flags.
AfterClose(pc, ok) ==
    IF pc = "closing" /\ ~ok THEN {"crashed", "hung"} ELSE {pc}

\* The close() of one client settles.
ShutdownCloseSettles(h) ==
    /\ h \in shut.pending
    /\ \E ok \in BOOLEAN :
         /\ hstate' = CloseHandle(h, ok)
         /\ \E pc \in AfterClose(shut.pc, ok) :
              shut' = [shut EXCEPT !.pc = pc, !.pending = @ \ {h}]
    /\ UNCHANGED <<clients, hsess, fsVars, call, acq, relay, del, socketVars,
                   op, returned, track>>

\* Promise.all has resolved: process.exit(0).
ShutdownExit ==
    /\ shut.pc = "closing"
    /\ shut.pending = {}
    /\ shut' = [shut EXCEPT !.pc = "exited"]
    /\ UNCHANGED <<clients, engineVars, fsVars, call, acq, relay, del,
                   socketVars, op, returned, track>>

\* The process has not ended.
ProcessAlive == shut.pc \notin {"exited", "crashed"}

ShutdownSteps ==
    \/ ShutdownSignal
    \/ \E h \in Handles : ShutdownCloseSettles(h)
    \/ ShutdownExit

\* Requests that acquire, for any session.
PopulateSteps ==
    \E c \in Calls :
        \/ \E s \in Sessions : GetConnectionStateStart(c, s)
        \/ GetConnectionStateAcquired(c)
        \/ GetConnectionStateReturns(c)

\* Acquiring requests for any session, and a termination signal; nothing
\* runs in a process that has ended.
NextShutdown ==
    \/ ProcessAlive /\ AcquireSteps
    \/ ProcessAlive /\ PopulateSteps
    \/ ProcessAlive /\ EngineSteps
    \/ ProcessAlive /\ ShutdownSteps

SpecShutdown == Init /\ [][NextShutdown]_vars

TrackSteps ==
    \/ \E s \in Contended, m \in 0..MaxAttempts : TrackStart(s, m)
    \/ \E out \in PollOutcomes : TrackPollSettles(out)
    \/ TrackWaitElapsed

\* Requests that put a handle in the registry.
RegisterSteps ==
    \E c \in Calls :
        \/ \E s \in Contended : GetConnectionStateStart(c, s)
        \/ AcquireProbeReturns(c)
        \/ AcquireCreateSucceeds(c)
        \/ GetConnectionStateAcquired(c)
        \/ GetConnectionStateReturns(c)

\* One trackMessageDelivery run next to requests that fill the registry.
NextTrack == TrackSteps \/ RegisterSteps \/ EngineSteps

\* The interval timer fires, and an awaited getMessageById settles.
TrackFairness ==
    /\ WF_vars(TrackWaitElapsed)
    /\ WF_vars(\E out \in PollOutcomes : TrackPollSettles(out))

SpecTrackLive == Init /\ [][NextTrack]_vars /\ TrackFairness

\* sendText and listChats requests, all for one session.
NextOps == AcquireSteps \/ OpSteps \/ EngineSteps

SpecOps == Init /\ [][NextOps]_vars

\* Initialization attempts and their subscribers, all for one session.
NextRelay == AcquireSteps \/ AttemptSteps \/ SocketSteps \/ EngineSteps

SpecRelay == Init /\ [][NextRelay]_vars

\* Attempts whose acquire resolves (the interface listener, and with it
\* the completion rule, exists only for those), and their subscribers.
CompletionSteps ==
    \E c \in Calls :
        \/ AcquireProbeReturns(c)
        \/ AcquireCreateSucceeds(c)
        \/ \E s \in Contended : InitializeWithQrStart(c, s)
        \/ \E s \in Contended : ReconnectStart(c, s)
        \/ AttemptAcquireSettled(c)
        \/ \E st \in EngineStatuses : EngineStatus(c, st)
        \/ \E mode \in InterfaceModes : EngineInterfaceChange(c, mode)
        \/ \E k \in Sockets : CompletionDisconnect(c, k)

\* What reaches the relay callbacks of an attempt: the statuses and QR
\* codes of the engine, 'ready' and 'initialization-error' of the handler,
\* 'error' of a failing acquire.
BroadcastSteps ==
    \E c \in Calls :
        \/ \E s \in Contended : InitializeWithQrStart(c, s)
        \/ \E s \in Contended : ReconnectStart(c, s)
        \/ AttemptAcquireSettled(c)
        \/ \E st \in EngineStatuses : EngineStatus(c, st)
        \/ EngineQr(c)
        \/ \E mode \in InterfaceModes : EngineInterfaceChange(c, mode)

\* Attempts and the events relayed for them; a broadcast to the room does
\* not depend on who is in it.
NextBroadcast == AcquireSteps \/ BroadcastSteps \/ EngineSteps

SpecBroadcast == Init /\ [][NextBroadcast]_vars

NextCompletion == CompletionSteps \/ SocketSteps \/ EngineSteps

\* The 1 s timers of the completion branch fire.
CompletionFairness ==
    \A c \in Calls : \A k \in Sockets : WF_vars(CompletionDisconnect(c, k))

\* Attempts for any session whose acquire resolves, the engine's signals,
\* and sockets joining any room.
IsolationSteps ==
    \/ \E c \in Calls :
          \/ AcquireProbeReturns(c)
          \/ AcquireCreateSucceeds(c)
          \/ \E s \in Sessions : InitializeWithQrStart(c, s)
          \/ \E s \in Sessions : ReconnectStart(c, s)
          \/ AttemptAcquireSettled(c)
          \/ \E st \in EngineStatuses : EngineStatus(c, st)
          \/ \E mode \in InterfaceModes : EngineInterfaceChange(c, mode)
          \/ \E k \in Sockets : CompletionDisconnect(c, k)
    \/ \E k \in Sockets, s \in Sessions : SocketJoin(k, s)

NextIsolation == IsolationSteps \/ EngineSteps

SpecIsolation == Init /\ [][NextIsolation]_vars

SpecCompletionLive == Init /\ [][NextCompletion]_vars /\ CompletionFairness

\* Attempts whose acquire resolves, with the interface changes of the
\* engine before and after the listener is attached.
NextReadiness ==
    \/ CompletionSteps
    \/ \E c \in Calls : \E mode \in InterfaceModes :
          EngineInterfaceUnheard(c, mode)
    \/ SocketSteps
    \/ EngineSteps

SpecReadinessLive == Init /\ [][NextReadiness]_vars /\ CompletionFairness

\* ======================================================== properties

\* ------------------------------------------------------------- SpecRelay

\* C1: within one pairing attempt the completion branch of
\* checkAndEmitSessionComplete runs at most once, however often 'inChat'
\* and 'MAIN' arrive, so no socket receives more than one session-complete
\* event from that attempt.
C1_CompletionAtMostOnce ==
    \A c \in Calls :
        /\ relay[c].completions <= 1
        /\ \A k \in Sockets : relay[c].scRecv[k] <= 1

\* An attempt has completed with a subscriber in the room, and both of its
\* signals can still arrive again.
C1_Witness ==
    \E c \in Calls :
        /\ relay[c].completions = 1
        /\ relay[c].sessionCompleteEmitted
        /\ \E k \in Sockets : relay[c].scRecv[k] = 1
        /\ relay[c].subscribed # Absent
        /\ hstate[relay[c].subscribed] = "live"

CarriesLockMarker(msg) ==
    \E w \in {"SingletonLock", "ProcessSingleton"} : w \in MsgWords(msg)

\* The run of call c settles in this step.
Settles(c) == acq[c].pc \notin {"resolved", "rejected"} /\
              acq'[c].pc \in {"resolved", "rejected"}

\* C3: the handles that acquire has returned for one session since the last
\* registry removal or failed probe never include two distinct live ones.
C3_OneLiveHandlePerSession ==
    \A s \in Sessions : \A h1, h2 \in returned[s] :
        (hstate[h1] = "live" /\ hstate[h2] = "live") => h1 = h2

\* C4 as stated: every run of acquire that resolves has probed the handle it
\* returns.
C4_EveryReturnProbed ==
    \A c \in Calls : acq[c].pc = "resolved" => acq[c].probed

\* C4, amended: a run that returns the cached handle returns it in the step
\* in which its probe of that handle succeeds, the handle being live; a run
\* that returns a created handle (first try or retry) returns the handle
\* its own create has just produced, without a probe.
C4_ProbedOrJustCreated ==
    [][\A c \in Calls :
         (Settles(c) /\ acq'[c].pc = "resolved") =>
             \/ /\ acq[c].pc = "probe"
                /\ acq'[c].probed
                /\ acq'[c].result = acq[c].existing
                /\ hstate[acq'[c].result] = "live"
             \/ /\ acq[c].pc \in {"create1", "create2"}
                /\ ~acq'[c].probed
                /\ acq'[c].result = c
                /\ hstate[c] = "none" /\ hstate'[c] = "live"]_vars

\* A run has returned the cached handle after probing it.
C4_Witness ==
    \E c \in Calls :
        /\ acq[c].pc = "resolved"
        /\ acq[c].probed
        /\ acq[c].creates = 0
        /\ acq[c].result = acq[c].existing
        /\ acq[c].result # Absent

\* C5: a first create that fails with a lock marker is retried, and when the
\* retry resolves the run returns the retry's handle, create was invoked
\* exactly twice and the registry holds that handle.
C5_RetrySucceeds ==
    [][\A c \in Calls :
         /\ (acq[c].pc = "create1" /\ acq'[c].pc \notin {"create1", "resolved"}
               /\ CarriesLockMarker(acq'[c].err1))
              => (acq'[c].pc = "delay" /\ acq'[c].err = NoError)
         /\ (acq[c].pc = "create2" /\ acq'[c].pc = "resolved")
              => /\ CarriesLockMarker(acq'[c].err1)
                 /\ acq'[c].creates = 2
                 /\ acq'[c].result = c
                 /\ hstate'[c] = "live"
                 /\ clients'[call[c].sid] = c]_vars

\* A run has resolved on its retry and the registry holds its handle.
C5_Witness ==
    \E c \in Calls :
        /\ acq[c].pc = "resolved"
        /\ acq[c].creates = 2
        /\ CarriesLockMarker(acq[c].err1)
        /\ acq[c].result = c
        /\ clients[call[c].sid] = c

\* C6: a first create that fails without a lock marker ends the run: create
\* was invoked once, cleanupChromeLockFiles not at all, and the run rejects
\* with that failure.
C6_OtherFailureNotRetried ==
    \A c \in Calls :
        (acq[c].err1 # NoError /\ ~CarriesLockMarker(acq[c].err1)) =>
            /\ acq[c].pc = "rejected"
            /\ acq[c].creates = 1
            /\ acq[c].cleanups = 0
            /\ acq[c].err = acq[c].err1

\* A run has rejected with 'Navigation timeout' after one create.
C6_Witness ==
    \E c \in Calls :
        /\ acq[c].pc = "rejected"
        /\ acq[c].err1 = "Navigation timeout"
        /\ acq[c].creates = 1

\* C7: a run invokes create at most twice; after the second invocation it
\* only resolves or rejects, and a run that rejects has created no handle
\* and stored none in the registry.
C7_AtMostOneRetry ==
    \A c \in Calls :
        /\ acq[c].creates <= 2
        /\ acq[c].creates = 2 => acq[c].pc \in {"create2", "resolved", "rejected"}
        /\ acq[c].pc = "rejected" =>
              /\ acq[c].err # NoError
              /\ acq[c].stored = Absent
              /\ hstate[c] = "none"
              /\ \A s \in Sessions : clients[s] # c

\* A retry has failed with a lock marker again and the run has rejected.
C7_Witness ==
    \E c \in Calls :
        /\ acq[c].pc = "rejected"
        /\ acq[c].creates = 2
        /\ CarriesLockMarker(acq[c].err)

\* ------------------------------------------------------------ SpecDelete

\* C8: a deleteSession that follows a returned deleteSession of the same
\* session, nothing else having been requested, does not throw, finds no
\* handle to log out, close or re-acquire, finds the directory absent, and
\* returns with the summary, the registry and the directory as the first
\* call left them.
C8_SecondDeleteIdempotent ==
    \A c \in Calls :
        (call[c].kind = "delete" /\ del[c].succ) =>
            /\ call[c].pc # "threw"
            /\ del[c].client = Absent
            /\ ~del[c].reacquired
            /\ ~del[c].logoutCalled /\ ~del[c].closeCalled
            /\ ~del[c].dirAtTail /\ ~del[c].rmCalled
            /\ call[c].pc = "done" =>
                  /\ del[c].summary = del[c - 1].summary
                  /\ (clients[call[c].sid] = Absent)
                        = del[c - 1].summary.clientRemoved
                  /\ (~dirExists[call[c].sid])
                        = del[c - 1].summary.dataDirectoryDeleted

C10_LogoutBeforeRemoval ==
    \A c \in Calls : del[c].rmCalled => del[c].logoutCalled

\* C10, amended: a run of deleteSession that has removed the directory has
\* before that either called logout, or started the re-acquire that is to
\* make the logout possible; and it calls logout no more once the directory
\* check of line 418 is passed.
C10_LogoutOrReacquireBeforeRemoval ==
    [][\A c \in Calls :
         /\ del'[c].rmCalled => (del[c].logoutCalled \/ del[c].reacquired)
         /\ (call[c].kind = "delete" /\ call[c].pc \in {"rmwait", "done"})
              => del'[c].logoutCalled = del[c].logoutCalled]_vars

\* A run has removed the directory without any logout: its re-acquire
\* timed out.
C10_Witness ==
    \E c \in Calls :
        /\ del[c].rmCalled
        /\ del[c].reacquired
        /\ del[c].timedOut
        /\ ~del[c].logoutCalled

\* C11: a deleteSession that found a handle in the registry has called
\* close() on it by the time it is past the logout and close block, whether
\* its logout succeeded or threw.
C11_CloseWhateverLogoutDid ==
    \A c \in Calls :
        (call[c].kind = "delete" /\ del[c].client # Absent
           /\ call[c].pc \in {"rmwait", "done"})
            => del[c].closeCalled

\* C12: once a deleteSession whose re-acquire lost the race against the
\* 10 s timeout has returned, the registry does not hold the handle that
\* the abandoned re-acquire creates.
C12_AbandonedCreateKeptOut ==
    \A c \in Calls :
        (call[c].kind = "delete" /\ call[c].pc = "done" /\ del[c].timedOut)
            => clients[call[c].sid] # c

C14_RegistryEmptyAfterDelete ==
    \A c \in Calls :
        (call[c].kind = "delete" /\ call[c].pc = "done" /\ del[c].quiet
           /\ \A d \in Calls : d > c => call[d].kind = "none")
            => clients[call[c].sid] = Absent

\* --------------------------------------------------------------- SpecOps

\* C15: when the authentication check of a sendText / listChats run says
\* not authenticated (isAuthenticated resolved false, be it because the
\* acquire failed), the run has returned success false and isAuthenticated
\* false, listChats with an empty chats list, it has not called the
\* engine's sendText / listChats, and it has not thrown.
C15_UnauthenticatedResult ==
    \A c \in Calls :
        (call[c].kind \in OpKinds /\ op[c].isAuth = "false") =>
            /\ call[c].pc = "done"
            /\ op[c].engineCalls = 0
            /\ op[c].result.returned
            /\ ~op[c].result.success
            /\ ~op[c].result.isAuthenticated
            /\ call[c].kind = "listChats" => op[c].result.chats = "empty"

\* A listChats run has returned unauthenticated without an engine call,
\* and so has a sendText run.
C15_Witness ==
    /\ \E c \in Calls :
          /\ call[c].kind = "listChats" /\ call[c].pc = "done"
          /\ op[c].isAuth = "false"
          /\ op[c].result.chats = "empty"
    /\ \E c \in Calls :
          /\ call[c].kind = "sendText" /\ call[c].pc = "done"
          /\ op[c].isAuth = "false"
          /\ op[c].result.returned

\* C16: every result of sendText / listChats has success = isAuthenticated;
\* a run whose authentication check passed and that did not succeed
\* returns success false and isAuthenticated false, and the route answers
\* it with 401; the route answers 200 exactly for a success.
C16_FailureIsUnauthenticated ==
    \A c \in Calls :
        (call[c].kind \in OpKinds /\ op[c].result.returned) =>
            /\ op[c].result.success = op[c].result.isAuthenticated
            /\ op[c].status = (IF op[c].result.success THEN 200 ELSE 401)
            /\ (op[c].isAuth = "true" /\ ~op[c].result.success) =>
                  (~op[c].result.isAuthenticated /\ op[c].status = 401)

\* The engine's send / list was called after a passed authentication check
\* and the run has returned a failure.
C16_Witness ==
    \E c \in Calls :
        /\ call[c].kind \in OpKinds /\ call[c].pc = "done"
        /\ op[c].isAuth = "true"
        /\ op[c].engineCalls = 1
        /\ ~op[c].result.success
        /\ op[c].status = 401

\* ------------------------------------------------- SpecRelay, continued

\* C17 as stated: a cleanupFailedSession that found a handle in the
\* registry has called close() on it, and when it returns the registry has
\* no entry for the session and the profile directory does not exist.
C17_CleanupLeavesNothingAtAll ==
    \A c \in Calls :
        /\ relay[c].cleanupClient # Absent => relay[c].cleanupClosed
        /\ relay[c].cleanupLeft.returned =>
              /\ relay[c].cleanupLeft.dirAbsent
              /\ relay[c].cleanupLeft.registryEmpty

\* C17, amended: a cleanupFailedSession that found a handle in the registry
\* has called close() on it; when it returns the profile directory is
\* gone, and, no other request having run next to it, the registry has no
\* entry for the session, whether close() resolved or threw.  (It has no
\* logout step.)
C17_CleanupLeavesNothing ==
    \A c \in Calls :
        /\ relay[c].cleanupClient # Absent => relay[c].cleanupClosed
        /\ relay[c].cleanupLeft.returned =>
              /\ relay[c].cleanupLeft.dirAbsent
              /\ (relay[c].cleanupAlone /\ relay[c].cleanupPeers = Received
                    /\ OthersPassive(c))
                   => (relay[c].cleanupLeft.registryEmpty
                       /\ clients[call[c].sid] = Absent)

\* A cleanupFailedSession has returned after a close() that threw on the
\* handle it found, nothing else running.
C17_Witness ==
    \E c \in Calls :
        /\ relay[c].cleanupLeft.returned
        /\ relay[c].cleanupClient # Absent
        /\ hstate[relay[c].cleanupClient] # "closed"
        /\ relay[c].cleanupAlone /\ relay[c].cleanupPeers = Received
        /\ OthersPassive(c)
        /\ relay[c].cleanupLeft.registryEmpty

\* C18: when the completion rule of an attempt fires, every socket then in
\* the room is sent session-complete in that step and is still connected
\* after it; the rule disconnects only sockets it has sent the event to, a
\* socket that was sent it has its disconnect pending as long as it is
\* connected, and is disconnected in the end.
C18_SentThenDisconnected ==
    /\ [](\A c \in Calls : \A k \in Sockets :
            /\ k \in relay[c].timers => relay[c].scRecv[k] >= 1
            /\ (relay[c].scRecv[k] >= 1 /\ k \in connected)
                 => k \in relay[c].timers)
    /\ [][\A c \in Calls :
            relay'[c].completions # relay[c].completions =>
                \A k \in room[call[c].sid] :
                    /\ relay'[c].scRecv[k] = relay[c].scRecv[k] + 1
                    /\ k \in relay'[c].timers
                    /\ k \in connected']_vars
    /\ \A c \in Calls : \A k \in Sockets :
          (relay[c].scRecv[k] >= 1) ~> (k \notin connected)

\* A socket was sent session-complete and has been disconnected by the
\* timer, while the other socket, not in the room, is still connected.
C18_Witness ==
    \E c \in Calls : \E k, j \in Sockets :
        /\ relay[c].scRecv[k] = 1
        /\ k \notin connected
        /\ k \notin relay[c].timers
        /\ relay[c].scRecv[j] = 0
        /\ j \in connected

\* --------------------------------------------------- SpecRelay, concluded

\* C19: for an initialize-with-qr attempt, the 2 s timer is pending, and
\* cleanupFailedSession is entered, only when the status-update carrying
\* 'initialization-error' has been broadcast; cleanupFailedSession is
\* entered only by the step of that timer; the branch's disconnect loop has
\* run only when cleanupFailedSession has settled, and it has run whenever
\* cleanupFailedSession has settled, by returning or by throwing.
C19_ErrorThenCleanupThenDisconnect ==
    /\ [](\A c \in Calls :
            call[c].kind = "init" =>
                LET r == relay[c]
                    settled == r.cleanupLeft.returned \/ r.cleanupThrew
                IN  /\ call[c].pc \in {"failwait", "cfs_close", "cfs_wait"}
                         => r.errorBroadcast /\ ~r.failDisconnected
                    /\ r.failDisconnected <=> settled
                    /\ settled => r.errorBroadcast /\ call[c].pc = "done")
    /\ [][\A c \in Calls :
            (/\ call[c].kind = "init"
             /\ call'[c].pc \in {"cfs_close", "cfs_wait"}
             /\ call[c].pc \notin {"cfs_close", "cfs_wait"})
                => call[c].pc = "failwait"]_vars

\* cleanupFailedSession of an attempt threw, the attempt has disconnected
\* the room, no completion rule has fired, and a socket is disconnected.
C19_Witness ==
    \E c \in Calls :
        /\ call[c].kind = "init"
        /\ relay[c].errorBroadcast
        /\ relay[c].cleanupThrew
        /\ relay[c].failDisconnected
        /\ \A d \in Calls : ~relay[d].sessionCompleteEmitted
        /\ \A d \in Calls \ {c} : ~relay[d].failDisconnected
        /\ connected # Sockets

\* ----------------------------------------------------------- SpecBroadcast

\* C20: no status event and no QR event has reached a relay callback of an
\* attempt without being broadcast to the room, whatever the readiness
\* flags and the completion flag were and whether or not a failure status
\* had been seen; a seen 'initialization-error' was broadcast.
C20_EveryEventBroadcast ==
    \A c \in Calls :
        /\ ~relay[c].unsent
        /\ call[c].pc = "failwait" => relay[c].errorBroadcast

\* One attempt had 'initialization-error' broadcast after its 'error'
\* status; another had a QR code broadcast and has sent session-complete.
C20_Witness ==
    \E c, d \in Calls :
        /\ relay[c].late
        /\ relay[c].errorBroadcast
        /\ ~relay[c].unsent
        /\ relay[d].qrSent
        /\ relay[d].sessionCompleteEmitted
        /\ ~relay[d].unsent

\* --------------------------------------------------- SpecAcquire, continued

\* C21: every handle the engine has created and that has not been closed
\* (its browser running or dead) is the registry's entry for its session.
C21_UnclosedHandleIsRegistryEntry ==
    \A h \in Handles :
        hstate[h] \in {"live", "dead"} => clients[hsess[h]] = h

\* ----------------------------------------------------------- SpecIsolation

\* The two flags and the one-shot flag of an attempt.
ReadinessOf(r) == <<r.isInChat, r.isMainMode, r.sessionCompleteEmitted>>

\* C22: a step that changes the readiness state of an attempt, or sends
\* session-complete in its name, changes nothing of an attempt for another
\* session; the attempt has a signal source of its own session (its create
\* is wired, or it listens on a handle created for its session); and
\* session-complete goes only to sockets in the room of its session.
C22_ReadinessPerSession ==
    [][\A d \in Calls :
         (\/ ReadinessOf(relay'[d]) # ReadinessOf(relay[d])
          \/ relay'[d].scRecv # relay[d].scRecv) =>
             /\ \A e \in Calls :
                   (\/ ReadinessOf(relay'[e]) # ReadinessOf(relay[e])
                    \/ relay'[e].scRecv # relay[e].scRecv)
                       => call[e].sid = call[d].sid
             /\ \/ StatusWired(d)
                \/ /\ relay[d].subscribed # Absent
                   /\ hstate[relay[d].subscribed] = "live"
                   /\ hsess[relay[d].subscribed] = call[d].sid
             /\ \A k \in Sockets :
                   relay'[d].scRecv[k] # relay[d].scRecv[k]
                       => k \in room[call[d].sid]]_vars

\* An attempt has completed and sent session-complete to a socket of its
\* room, while an attempt for another session, its browser running and a
\* socket in its room, has no flag set and that socket was sent nothing.
C22_Witness ==
    \E c, d \in Calls : \E k, j \in Sockets :
        /\ call[c].sid # call[d].sid
        /\ HasStatusCallback(c) /\ HasStatusCallback(d)
        /\ relay[c].sessionCompleteEmitted
        /\ relay[c].scRecv[k] = 1
        /\ relay[d].subscribed # Absent
        /\ hstate[relay[d].subscribed] = "live"
        /\ ReadinessOf(relay[d]) = <<FALSE, FALSE, FALSE>>
        /\ j \in room[call[d].sid]
        /\ relay[c].scRecv[j] = 0 /\ relay[d].scRecv[j] = 0

\* ------------------------------------------------ SpecBroadcast, continued

\* C23: once an initialize-with-qr request has invoked acquire, its
\* response has been sent, wherever that acquire stands: probing, its
\* create pending, waiting to retry, resolved or rejected.
C23_RespondedBeforeAcquire ==
    \A c \in Calls :
        (call[c].kind = "init" /\ call[c].pc # "idle") => relay[c].responded

\* Two answered initialize-with-qr requests: the create of one is still
\* pending, the acquire of the other has rejected.
C23_Witness ==
    \E c, d \in Calls :
        /\ call[c].kind = "init" /\ call[d].kind = "init"
        /\ relay[c].responded /\ relay[d].responded
        /\ call[c].pc = "acquire" /\ acq[c].pc = "create1"
        /\ call[d].pc = "acquire" /\ acq[d].pc = "rejected"

\* ------------------------------------------------------------ SpecShutdown

\* C24: once the signal has come, close() has been invoked on every handle
\* that was in the registry; the process has ended only when every one of
\* those closes has settled; and when they all have settled, whatever
\* their outcomes, the handler exits or has exited the process.
C24_ExitAfterEveryClose ==
    /\ shut.pc # "running" => shut.called = shut.snapshot
    /\ shut.pc \in {"exited", "crashed"} => shut.pending = {}
    /\ (shut.pc # "running" /\ shut.pending = {})
           => shut.pc \in {"closing", "exited", "crashed"}

\* ---------------------------------------------------- SpecAcquire, concluded

\* C25: when the probe of the cached handle settles with the handle live,
\* the run resolves in that step with that handle, has invoked create not
\* once, and the step changes neither the registry nor any handle.
C25_FastPath ==
    [][\A c \in Calls :
         (/\ acq[c].pc = "probe"
          /\ acq'[c].pc # "probe"
          /\ hstate[acq[c].existing] = "live")
             => /\ acq'[c].pc = "resolved"
                /\ acq'[c].result = acq[c].existing
                /\ acq'[c].creates = 0
                /\ clients' = clients
                /\ hstate' = hstate]_vars

\* A run has resolved with the cached handle, which is live and still the
\* registry's entry, without a create.
C25_Witness ==
    \E c \in Calls :
        /\ acq[c].pc = "resolved"
        /\ acq[c].creates = 0
        /\ acq[c].result = clients[call[c].sid]
        /\ acq[c].result = acq[c].existing
        /\ hstate[acq[c].result] = "live"

\* C27: in the step in which a create of a run resolves (first try or
\* retry) the run resolves too, with the handle it stored, and after the
\* step that handle, live, is the registry's entry for the session.
C27_StoredThenReturned ==
    [][\A c \in Calls :
         (acq[c].pc \in {"create1", "create2"} /\ acq'[c].pc = "resolved")
             => /\ acq'[c].result # Absent
                /\ acq'[c].stored = acq'[c].result
                /\ clients'[call[c].sid] = acq'[c].result
                /\ hstate'[acq'[c].result] = "live"
                /\ hsess'[acq'[c].result] = call[c].sid]_vars

\* A run has resolved on its first create, nothing having been cached, and
\* the registry holds the handle it returns.
C27_Witness ==
    \E c \in Calls :
        /\ acq[c].pc = "resolved"
        /\ acq[c].creates = 1
        /\ acq[c].existing = Absent
        /\ acq[c].stored = acq[c].result
        /\ clients[call[c].sid] = acq[c].result

\* C28: a step in which a create of a run fails leaves an existing profile
\* directory in place, touches no other session's directory, the registry,
\* no deleteSession run and no request's position (cleanupFailedSession is
\* a position of the request); it removes lock markers only when it goes
\* on to the retry.
C28_FailureKeepsData ==
    [][\A c \in Calls :
         (/\ acq[c].pc \in {"create1", "create2"}
          /\ acq'[c].pc \in {"delay", "rejected"})
             => LET s == call[c].sid
                IN  /\ dirExists[s] => dirExists'[s]
                    /\ acq'[c].pc = "rejected"
                          => lockFiles[s] \subseteq lockFiles'[s]
                    /\ acq'[c].cleanups # acq[c].cleanups
                          => acq'[c].pc = "delay"
                    /\ \A t \in Sessions \ {s} :
                          /\ dirExists'[t] = dirExists[t]
                          /\ lockFiles'[t] = lockFiles[t]
                    /\ clients' = clients
                    /\ del' = del
                    /\ call' = call]_vars

\* A run has rejected after its retry: the profile directory is still
\* there, less a lock marker the remediation deleted.
C28_Witness ==
    \E c \in Calls :
        /\ acq[c].pc = "rejected"
        /\ acq[c].creates = 2
        /\ acq[c].cleanups = 1
        /\ dirExists[call[c].sid]
        /\ lockFiles[call[c].sid] # LockFileNames

\* ------------------------------------------------------ SpecOps, continued

\* C26: when the probe of the cached handle settles with the handle not
\* live, the step empties the registry entry and goes on to create; a run
\* that had a cached handle and resolves after a create does not resolve
\* with that handle; and when such a run rejects, the registry has no entry
\* for the session.
C26_StaleEntryEvicted ==
    [][\A c \in Calls :
         /\ (/\ acq[c].pc = "probe"
             /\ acq'[c].pc # "probe"
             /\ hstate[acq[c].existing] # "live")
                => /\ acq'[c].pc = "create1"
                   /\ clients'[call[c].sid] = Absent
         /\ (/\ acq[c].pc \in {"create1", "create2"}
             /\ acq[c].existing # Absent
             /\ acq'[c].pc = "resolved")
                => acq'[c].result # acq[c].existing
         /\ (/\ acq[c].pc \in {"create1", "create2"}
             /\ acq[c].existing # Absent
             /\ acq'[c].pc = "rejected")
                => clients'[call[c].sid] = Absent]_vars

\* ------------------------------------------------ SpecBroadcast, concluded

\* C29: a run of acquire that was given a status callback and has rejected
\* has, before its caller sees the rejection, given the callback exactly
\* one status 'error', carrying the message it rejected with; that
\* message is the one of the create that failed last; a run that has not
\* rejected has given no 'error'; the rejection makes the attempt wait for
\* its failure timer and the process is running.
C29_FailureReportedOnce ==
    /\ [](\A c \in Calls :
            HasStatusCallback(c) =>
                /\ acq[c].pc = "rejected"
                      => /\ acq[c].errorStatus = 1
                         /\ acq[c].errorMsg = acq[c].err
                         /\ acq[c].err # NoError
                         /\ relay[c].failed
                         /\ call[c].pc = "acquire"
                /\ acq[c].pc # "rejected" => acq[c].errorStatus = 0)
    /\ [](shut.pc = "running")
    /\ [][\A c \in Calls :
            (HasStatusCallback(c) /\ acq[c].pc = "rejected"
               /\ acq'[c].pc # "rejected")
                => call'[c].pc = "failwait" /\ relay'[c].errorBroadcast]_vars

\* An attempt's acquire has rejected after a retry whose error differs
\* from the first one; one 'error' status was given, with the retry's
\* message.
C29_Witness ==
    \E c \in Calls :
        /\ HasStatusCallback(c)
        /\ acq[c].pc = "rejected"
        /\ acq[c].creates = 2
        /\ acq[c].err # acq[c].err1
        /\ acq[c].errorStatus = 1
        /\ acq[c].errorMsg = acq[c].err

\* ---------------------------------------------------------- SpecAcquireLive

\* C30: cleanupChromeLockFiles runs only in the step that catches the lock
\* failure of the first create, and that step starts the delay whatever
\* markers are left; the retry create is invoked only by the step that
\* ends the delay, after the one cleanup; and a run in the delay gets to
\* its retry.
C30_CleanupDelayRetry ==
    /\ [][\A c \in Calls :
            /\ acq'[c].cleanups > acq[c].cleanups
                  => /\ acq[c].pc = "create1"
                     /\ acq'[c].pc = "delay"
                     /\ acq'[c].cleanups = 1
                     /\ acq'[c].creates = acq[c].creates
                     /\ lockFiles'[call[c].sid] \subseteq LockFileNames
            /\ (acq'[c].pc = "create2" /\ acq[c].pc # "create2")
                  => /\ acq[c].pc = "delay"
                     /\ acq[c].cleanups = 1
                     /\ acq'[c].creates = acq[c].creates + 1
                     /\ lockFiles' = lockFiles]_vars
    /\ \A c \in Calls : (acq[c].pc = "delay") ~> (acq[c].pc = "create2")

\* The only request so far is at its retry create, after one cleanup, and
\* a lock marker is still in the profile directory: it could not be
\* deleted.
C30_Witness ==
    \E c \in Calls :
        /\ acq[c].pc = "create2"
        /\ acq[c].cleanups = 1
        /\ lockFiles[call[c].sid] # {}
        /\ \A d \in Calls \ {c} : call[d].kind = "none"

\* ------------------------------------------- SpecBroadcast, failed attempts

C32_BothSignalsLeadToCompletion ==
    \A c \in Calls :
        (/\ HasStatusCallback(c)
         /\ call[c].pc = "listening"
         /\ relay[c].seenInChat
         /\ (relay[c].seenMain \/ relay[c].mainUnheard))
            ~> relay[c].sessionCompleteEmitted

\* ------------------------------------------ SpecRelay, failure cleanup

\* Attempts other than c that hold a running handle of session s which
\* has reported 'inChat'.
AuthenticatedPeers(c, s) ==
    {d \in Calls \ {c} :
        /\ HasStatusCallback(d)
        /\ call[d].sid = s
        /\ call[d].pc = "listening"
        /\ relay[d].seenInChat
        /\ hstate[call[d].client] = "live"}

\* C33: no step of the cleanupFailedSession run that initialize-with-qr
\* schedules after 'initialization-error' calls close() on, closes or
\* unregisters the handle of an attempt of that session that has reached
\* an authenticated state, or removes that session's profile directory.
C33_CleanupSparesAuthenticated ==
    [][\A c \in Calls :
          (/\ call[c].kind = "init"
           /\ call[c].pc \in {"failwait", "cfs_close", "cfs_wait"}
           /\ call'[c].pc # call[c].pc)
             => \A d \in AuthenticatedPeers(c, call[c].sid) :
                    /\ relay'[c].cleanupClient # call[d].client
                    /\ hstate'[call[d].client] = "live"
                    /\ clients'[call[c].sid] = clients[call[c].sid]
                    /\ dirExists'[call[c].sid] = dirExists[call[c].sid]]_vars

\* ------------------------------------- SpecBroadcast, order of failure

\* C34: the outcome statuses broadcast for an attempt are, in order,
\* 'error' while its acquire has rejected and the handler has not yet
\* run its .catch, then 'error', 'initialization-error' once the .catch
\* has run, each once; 'ready' is broadcast only for an attempt whose
\* acquire resolved, and nothing before it.
C34_ErrorThenInitializationError ==
    \A c \in Calls :
        HasStatusCallback(c) =>
            /\ (call[c].pc = "acquire" /\ acq[c].pc = "rejected")
                  => relay[c].trail = <<"error">>
            /\ call[c].pc = "failwait"
                  => relay[c].trail = <<"error", "initialization-error">>
            /\ call[c].pc = "listening" <=> relay[c].trail = <<"ready">>
            /\ relay[c].trail \in {<<>>, <<"error">>, <<"ready">>,
                                   <<"error", "initialization-error">>}

\* The .catch of an attempt has run after a failed retry, 'inChat' having
\* been relayed while a create was pending.
C34_Witness ==
    \E c \in Calls :
        /\ HasStatusCallback(c)
        /\ call[c].pc = "failwait"
        /\ relay[c].seenInChat
        /\ relay[c].trail = <<"error", "initialization-error">>

\* ------------------------------------------- SpecOps, isAuthenticated

\* C35: isAuthenticated calls resolve at most once and its caller always
\* goes on with a value; the value is false when 'desconnectedMobile'
\* reached statusFind while the create was pending, false when the
\* acquire rejected, and otherwise what client.isAuthenticated() answered,
\* false if it threw; once the value is there no later step, a late
\* 'desconnectedMobile' or the settling of the acquire, changes it or
\* asks the engine.
C35_SettledOnce ==
    /\ [](\A c \in Calls :
            call[c].kind \in OpKinds =>
                /\ op[c].resolves <= 1
                /\ op[c].resolves = 1 <=> op[c].isAuth # "none"
                /\ call[c].pc \notin {"auth", "isauth"}
                      => op[c].isAuth # "none"
                /\ (op[c].resolved /\ op[c].authRunning)
                      => (op[c].isAuth = "false" /\ op[c].answer = "none")
                /\ op[c].answer # "none"
                      => op[c].isAuth = (IF op[c].answer = "true"
                                         THEN "true" ELSE "false")
                /\ op[c].isAuth = "true" => op[c].answer = "true")
    /\ [][\A c \in Calls :
            /\ op[c].isAuth # "none"
                  => /\ op'[c].isAuth = op[c].isAuth
                     /\ op'[c].resolves = op[c].resolves
                     /\ op'[c].answer = op[c].answer
            /\ (call[c].pc = "auth" /\ ~op[c].resolved /\ op'[c].resolved
                   /\ acq[c].pc = "rejected")
                  => op'[c].isAuth = "false"]_vars

\* A run was resolved false by 'desconnectedMobile'; its acquire resolved
\* afterwards, .then found resolved set and did not ask the engine.
C35_Witness ==
    \E c \in Calls :
        /\ call[c].kind \in OpKinds
        /\ op[c].isAuth = "false"
        /\ op[c].resolves = 1
        /\ op[c].answer = "none"
        /\ ~op[c].authRunning
        /\ hstate[c] = "live"

\* ----------------------------------------- SpecRelay, reconnect failure

\* C36: a reconnect attempt never runs cleanupFailedSession; the step of
\* its 2 s timer after 'initialization-error' disconnects the sockets in
\* the session's room and changes nothing else: the registry, the handles,
\* the profile directories and their lock markers are as before, and the
\* attempt is over.
C36_ReconnectFailureOnlyDisconnects ==
    /\ [](\A c \in Calls :
            call[c].kind = "reconnect" =>
                /\ call[c].pc \notin {"cfs_close", "cfs_wait"}
                /\ relay[c].cleanupClient = Absent
                /\ ~relay[c].cleanupClosed
                /\ ~relay[c].cleanupLeft.returned
                /\ ~relay[c].cleanupThrew
                /\ relay[c].failDisconnected
                      => call[c].pc = "done" /\ relay[c].errorBroadcast)
    /\ [][\A c \in Calls :
            (/\ call[c].kind = "reconnect"
             /\ call[c].pc = "failwait"
             /\ call'[c].pc # "failwait")
                => /\ call'[c].pc = "done"
                   /\ relay'[c].failDisconnected
                   /\ clients' = clients
                   /\ hstate' = hstate
                   /\ dirExists' = dirExists
                   /\ lockFiles' = lockFiles
                   /\ connected' = connected \ room[call[c].sid]
                   /\ room'[call[c].sid] = {}]_vars

\* A reconnect attempt has failed and disconnected a socket, while the
\* registry holds a handle of the session and its profile directory
\* exists.
C36_Witness ==
    \E c \in Calls :
        /\ call[c].kind = "reconnect"
        /\ call[c].pc = "done"
        /\ relay[c].failDisconnected
        /\ connected # Sockets
        /\ clients[call[c].sid] # Absent
        /\ dirExists[call[c].sid]

\* ------------------------------------- SpecTrackLive, delivery tracking

\* A poll after which the loop goes on: it threw, or its message has an
\* ack below 2.
GoesOn(out) == out.kind = "throw" \/ (out.kind = "message" /\ out.ack < 2)

====
